---- MODULE Spec2Model ----
(***************************************************************************)
(* Model of the object synchronizer of the Live Share SDK:                 *)
(* LiveObjectSynchronizer (the per-object facade and the static registry)  *)
(* and ContainerSynchronizer (the per-container protocol engine).          *)
(*                                                                         *)
(* One container runtime and one runtime signaler are modelled.  `syncs`   *)
(* holds every ContainerSynchronizer ever constructed, in construction     *)
(* order: the constructor subscribes to the runtime's "connected" and to   *)
(* the container's "signal" event and nothing ever unsubscribes, so an     *)
(* instance removed from the registry keeps receiving both events.         *)
(*                                                                         *)
(* The user callbacks getState / updateState are code the synchronizer     *)
(* does not own: what a call returns (or whether it throws) is chosen      *)
(* anew at every call.  Every action records what it did in the            *)
(* observation variables op, out, calls, errs and thrown.                  *)
(***************************************************************************)
EXTENDS Integers, Sequences, FiniteSets, TLC

\* ------------------------------------------------------------------ bounds

\* Number of facades that are constructed successfully in one behaviour of
\* Spec (the lifecycle) and of SpecSignals (the lifecycle with inbound signals).
MaxFacades == 3
MaxSignalFacades == 2

\* Number of facades constructed successfully in one behaviour of
\* SpecPayloads (inbound signals with every kind of payload).
MaxPayloadFacades == 2

\* ------------------------------------------------------------------ values

\* Object ids; IdOrder is the order in which the keys of a payload are
\* enumerated (for .. in).
Ids == {"o1", "o2"}
IdOrder == <<"o1", "o2">>

CONNECT_EVENT == "connect"
UPDATE_EVENT == "update"
OTHER_EVENT == "other"

Undefined == "undefined"
Null == "null"
Primitive == "prim"
Throws == "throws"
Ok == "ok"

\* States a getState callback can hand out (objects).
StateVals == {"s1", "s2"}

\* Outcome of one getState call: a state object, undefined, or an exception.
GetResults == StateVals \cup {Undefined, Throws}

\* Values a remote payload can carry for an id.
InVals == {"s1", Null, Undefined, Primitive}

\* typeof v == "object": objects and null.
TypeofObject(v) == v \in StateVals \cup {Null}

NoError == "none"
DuplicateError == "LiveObjectSynchronizer: too many calls to registerObject()"
CallbackError == "exception thrown by getState"

GetStateLog == "LiveObjectSynchronizer: error getting an objects state"
UpdateLog == "LiveObjectSynchronizer: error processing received update"

RemoteClients == {"B"}

\* A function with no keys (the object literal {}).
EmptyContent == [x \in {} |-> Undefined]

Put(f, k, v) == [x \in DOMAIN f \cup {k} |-> IF x = k THEN v ELSE f[x]]

Remove(f, k) == [x \in DOMAIN f \ {k} |-> f[x]]

Filter(seq, k) == SelectSeq(seq, LAMBDA x : x # k)

Range(seq) == {seq[i] : i \in 1..Len(seq)}

\* ------------------------------------------------------------------ state

VARIABLES
    connected,   \* IRuntimeSignaler.connected
    syncs,       \* every ContainerSynchronizer constructed so far
    registry,    \* LiveObjectSynchronizer._synchronizers: index into syncs, 0 = no entry
    facades,     \* every LiveObjectSynchronizer whose constructor returned
    op,          \* the operation the last step performed
    out,         \* the signals the last step submitted, in order
    calls,       \* the callback invocations of the last step, in order
    errs,        \* the console.error lines of the last step
    thrown,      \* the exception the last step's operation threw to its caller
    peers,       \* two clients of one container: runtime, synchronizer and live object of each
    net,         \* the signals submitted by the peers and not yet delivered
    scope,       \* a LiveEventScope: allowedRoles and the role verifications in flight
    scopeObs,    \* what the last step of the scope did: listener calls, telemetry, exception
    fresh,       \* three events and the results of LiveEvent.isNewer on their pairs
    vol,         \* a VolumeManager and the volume of its media player
    ink,         \* an InkingControls component, its inkingManager and the last two calls
    notes        \* a LiveNotifications component and its pending timeouts

\* The variables of the synchronizer of one client, of the two peers and of
\* the event scope; connected is the runtime both the synchronizer and the
\* scope of a client listen to.
syncVars == <<syncs, registry, facades, op, out, calls, errs, thrown>>

peerVars == <<peers, net>>

scopeVars == <<scope, scopeObs>>

vars == <<connected, syncVars, peerVars, scopeVars, fresh, vol, ink, notes>>

\* What an action of one part leaves alone.
notSynchronizer == <<peerVars, scopeVars, fresh, vol, ink, notes>>

notPeers == <<connected, syncVars, scopeVars, fresh, vol, ink, notes>>

notScope == <<syncVars, peerVars, fresh, vol, ink, notes>>

notFresh == <<connected, syncVars, peerVars, scopeVars, vol, ink, notes>>

notVolume == <<connected, syncVars, peerVars, scopeVars, fresh, ink, notes>>

notInking == <<connected, syncVars, peerVars, scopeVars, fresh, vol, notes>>

notNotifications == <<connected, syncVars, peerVars, scopeVars, fresh, vol, ink>>

\* Fields of a ContainerSynchronizer.  objects maps an id to the facade
\* (index into facades) whose handlers are stored for it; 0 stands for the
\* handlers of a facade whose constructor threw.  intervals counts the
\* setInterval timers of this instance that have not been cleared.
NewContainerSynchronizer ==
    [objects |-> EmptyContent,
     unconnectedKeys |-> <<>>,
     connectedKeys |-> <<>>,
     refCount |-> 0,
     hTimer |-> FALSE,
     intervals |-> 0]

\* An inbound signal message: kind is what typeof message.content tells apart
\* ("object": a keyed payload, "null": null, "prim": anything else); content
\* holds the keys of a keyed payload.
Msg(type, clientId, kind, content) ==
    [type |-> type, clientId |-> clientId, kind |-> kind, content |-> content]

NoMsg == Msg("-", "-", Primitive, EmptyContent)

NoOp == [name |-> "init", id |-> "-", facade |-> 0, msg |-> NoMsg, local |-> FALSE, conn |-> FALSE]

Signal(type, content) == [type |-> type, content |-> content]

GetCall(id, owner, connecting, result) ==
    [fn |-> "getState", id |-> id, owner |-> owner, connecting |-> connecting,
     state |-> Undefined, senderId |-> "-", result |-> result]

UpdateCall(id, owner, connecting, state, senderId, result) ==
    [fn |-> "updateState", id |-> id, owner |-> owner, connecting |-> connecting,
     state |-> state, senderId |-> senderId, result |-> result]

\* What running a piece of code did besides changing the synchronizer.
NoEffects == [out |-> <<>>, calls |-> <<>>, errs |-> <<>>]

Join(a, b) == [out |-> a.out \o b.out, calls |-> a.calls \o b.calls, errs |-> a.errs \o b.errs]

\* ------------------------------------------------------------------ ContainerSynchronizer

\* The forEach of sendGroupEvent: g[id] is what getState(false) of id does now.
RECURSIVE composeUpdates(_, _, _, _)
composeUpdates(s, keys, g, acc) ==
    IF keys = <<>> THEN acc
    ELSE LET id == Head(keys)
             has == id \in DOMAIN s.objects
             r == IF has THEN g[id] ELSE Undefined
         IN composeUpdates(s, Tail(keys), g,
                [updates |-> IF TypeofObject(r) THEN Put(acc.updates, id, r) ELSE acc.updates,
                 calls |-> IF has
                           THEN Append(acc.calls, GetCall(id, s.objects[id], FALSE, r))
                           ELSE acc.calls,
                 errs |-> IF r = Throws THEN Append(acc.errs, GetStateLog) ELSE acc.errs])

\* Variant of sendGroupEvent: submits the signal also when no id has a state.
sendGroupEvent_sendsEmpty(s, keys, evt, g) ==
    LET c == composeUpdates(s, keys, g, [updates |-> EmptyContent, calls |-> <<>>, errs |-> <<>>])
    IN [out |-> <<Signal(evt, c.updates)>>, calls |-> c.calls, errs |-> c.errs]

\* Variant of sendGroupEvent: one try block around the whole loop, so the
\* first exception of a getState ends the collection and nothing is sent.
sendGroupEvent_abortsOnThrow(s, keys, evt, g) ==
    LET c == composeUpdates(s, keys, g, [updates |-> EmptyContent, calls |-> <<>>, errs |-> <<>>])
        threw == {k \in DOMAIN c.calls : c.calls[k].result = Throws}
        first == CHOOSE k \in threw : \A j \in threw : k <= j
    IN IF threw = {}
       THEN [out |-> IF DOMAIN c.updates # {} THEN <<Signal(evt, c.updates)>> ELSE <<>>,
             calls |-> c.calls,
             errs |-> c.errs]
       ELSE [out |-> <<>>, calls |-> SubSeq(c.calls, 1, first), errs |-> <<GetStateLog>>]

sendGroupEvent(s, keys, evt, g) ==
    LET c == composeUpdates(s, keys, g, [updates |-> EmptyContent, calls |-> <<>>, errs |-> <<>>])
    IN [out |-> IF DOMAIN c.updates # {} THEN <<Signal(evt, c.updates)>> ELSE <<>>,
        calls |-> c.calls,
        errs |-> c.errs]

\* The timer started by setInterval and the one cleared by clearInterval.
startTimer(s) ==
    [s EXCEPT !.refCount = @ + 1,
              !.hTimer = IF s.refCount = 0 THEN TRUE ELSE @,
              !.intervals = IF s.refCount = 0 THEN @ + 1 ELSE @]

\* Variant of clearTimer: forgets the handle without clearing the interval.
clearTimer_keepsInterval(s) == [s EXCEPT !.hTimer = FALSE]

clearTimer(s) ==
    [s EXCEPT !.hTimer = FALSE,
              !.intervals = IF s.hTimer THEN @ - 1 ELSE @]

\* Variant of connectToGroup: submits the connect only for a state object.
connectToGroup_onlyIfState(s, id, owner, conn, r) ==
    IF conn
    THEN [s |-> IF r = Throws THEN s ELSE [s EXCEPT !.connectedKeys = Append(@, id)],
          thrown |-> IF r = Throws THEN CallbackError ELSE NoError,
          out |-> IF TypeofObject(r)
                  THEN <<Signal(CONNECT_EVENT, Put(EmptyContent, id, r))>> ELSE <<>>,
          calls |-> <<GetCall(id, owner, TRUE, r)>>, errs |-> <<>>]
    ELSE [s |-> [s EXCEPT !.unconnectedKeys = Append(@, id)], thrown |-> NoError] @@ NoEffects

\* Variant of connectToGroup: submits the connect only on the first reference.
connectToGroup_firstOnly(s, id, owner, conn, r) ==
    IF conn
    THEN [s |-> IF r = Throws THEN s ELSE [s EXCEPT !.connectedKeys = Append(@, id)],
          thrown |-> IF r = Throws THEN CallbackError ELSE NoError,
          out |-> IF r # Throws /\ s.refCount = 0
                  THEN <<Signal(CONNECT_EVENT, Put(EmptyContent, id, r))>> ELSE <<>>,
          calls |-> <<GetCall(id, owner, TRUE, r)>>, errs |-> <<>>]
    ELSE [s |-> [s EXCEPT !.unconnectedKeys = Append(@, id)], thrown |-> NoError] @@ NoEffects

\* "Connect object to group" of registerObject; r is what
\* handlers.getState(true) does.  An exception of getState leaves the method
\* at that point, after the handlers were saved.
connectToGroup(s, id, owner, conn, r) ==
    IF conn
    THEN IF r = Throws
         THEN [s |-> s, thrown |-> CallbackError, out |-> <<>>,
               calls |-> <<GetCall(id, owner, TRUE, r)>>, errs |-> <<>>]
         ELSE [s |-> [s EXCEPT !.connectedKeys = Append(@, id)],
               thrown |-> NoError,
               out |-> <<Signal(CONNECT_EVENT, Put(EmptyContent, id, r))>>,
               calls |-> <<GetCall(id, owner, TRUE, r)>>, errs |-> <<>>]
    ELSE [s |-> [s EXCEPT !.unconnectedKeys = Append(@, id)], thrown |-> NoError] @@ NoEffects

\* registerObject past its duplicate check: save the handlers, connect the
\* object to the group, start the update timer on the first reference.
registerNew(s, id, owner, conn, r) ==
    LET c == connectToGroup([s EXCEPT !.objects = Put(@, id, owner)], id, owner, conn, r)
    IN IF c.thrown = NoError
       THEN [s |-> startTimer(c.s), thrown |-> c.thrown, out |-> c.out,
             calls |-> c.calls, errs |-> c.errs]
       ELSE c

\* Variant of registerObject: no duplicate check.
registerObject_noDuplicateCheck(s, id, owner, conn, r) == registerNew(s, id, owner, conn, r)

\* registerObject(id, handlers).
registerObject(s, id, owner, conn, r) ==
    IF id \in DOMAIN s.objects
    THEN [s |-> s, thrown |-> DuplicateError] @@ NoEffects
    ELSE registerNew(s, id, owner, conn, r)

\* unregisterObject(id): the synchronizer afterwards and the returned lastObject.
\* Variant of unregisterObject: leaves the id in the key lists.
unregisterObject_keepsKeys(s, id) ==
    IF id \in DOMAIN s.objects
    THEN LET s1 == [s EXCEPT !.objects = Remove(@, id), !.refCount = @ - 1]
         IN IF s1.refCount = 0
            THEN [s |-> clearTimer(s1), lastObject |-> TRUE]
            ELSE [s |-> s1, lastObject |-> FALSE]
    ELSE [s |-> s, lastObject |-> FALSE]

unregisterObject(s, id) ==
    IF id \in DOMAIN s.objects
    THEN LET s1 == [s EXCEPT !.objects = Remove(@, id), !.refCount = @ - 1]
         IN IF s1.refCount = 0
            THEN [s |-> clearTimer(s1), lastObject |-> TRUE]
            ELSE [s |-> [s1 EXCEPT !.connectedKeys = Filter(@, id),
                                   !.unconnectedKeys = Filter(@, id)],
                  lastObject |-> FALSE]
    ELSE [s |-> s, lastObject |-> FALSE]

\* Variant of onConnected: does not clear unconnectedKeys.
onConnected_keepsPending(s, g) ==
    IF Len(s.unconnectedKeys) > 0
    THEN [s |-> [s EXCEPT !.connectedKeys = @ \o s.unconnectedKeys]]
         @@ sendGroupEvent(s, s.unconnectedKeys, CONNECT_EVENT, g)
    ELSE [s |-> s] @@ NoEffects

\* Variant of onConnected: the pending ids replace the connected ones.
onConnected_dropsConnected(s, g) ==
    IF Len(s.unconnectedKeys) > 0
    THEN [s |-> [s EXCEPT !.connectedKeys = s.unconnectedKeys,
                          !.unconnectedKeys = <<>>]]
         @@ sendGroupEvent(s, s.unconnectedKeys, CONNECT_EVENT, g)
    ELSE [s |-> s] @@ NoEffects

\* The "connected" listener of the constructor.
onConnected(s, g) ==
    IF Len(s.unconnectedKeys) > 0
    THEN [s |-> [s EXCEPT !.connectedKeys = @ \o s.unconnectedKeys,
                          !.unconnectedKeys = <<>>]]
         @@ sendGroupEvent(s, s.unconnectedKeys, CONNECT_EVENT, g)
    ELSE [s |-> s] @@ NoEffects

\* The for .. in loop of dispatchUpdates over the payload's keys; u[id] is
\* what updateState of id does now.
RECURSIVE dispatchLoop(_, _, _, _, _, _, _)
dispatchLoop(s, senderId, updates, connecting, u, ids, acc) ==
    IF ids = <<>> THEN acc
    ELSE LET id == Head(ids)
             has == id \in DOMAIN updates /\ id \in DOMAIN s.objects
             state == updates[id]
             invoked == has /\ TypeofObject(state)
         IN dispatchLoop(s, senderId, updates, connecting, u, Tail(ids),
                [keys |-> IF has THEN Append(acc.keys, id) ELSE acc.keys,
                 calls |-> IF invoked
                           THEN Append(acc.calls,
                                    UpdateCall(id, s.objects[id], connecting, state, senderId, u[id]))
                           ELSE acc.calls,
                 errs |-> IF invoked /\ u[id] = Throws
                          THEN Append(acc.errs, UpdateLog) ELSE acc.errs])

\* Variant of dispatchUpdates: answers an update signal with a pong as well.
dispatchUpdates_pongsAlways(s, senderId, updates, connecting, g, u) ==
    LET d == dispatchLoop(s, senderId, updates, connecting, u, IdOrder,
                          [keys |-> <<>>, calls |-> <<>>, errs |-> <<>>])
        applied == [out |-> <<>>, calls |-> d.calls, errs |-> d.errs]
    IN Join(applied, sendGroupEvent(s, d.keys, UPDATE_EVENT, g))

\* Variant of dispatchUpdates: one try block around the whole loop, so the
\* first exception of an updateState ends the dispatch of the payload.
dispatchUpdates_abortsOnThrow(s, senderId, updates, connecting, g, u) ==
    LET d == dispatchLoop(s, senderId, updates, connecting, u, IdOrder,
                          [keys |-> <<>>, calls |-> <<>>, errs |-> <<>>])
        threw == {k \in DOMAIN d.calls : d.calls[k].result = Throws}
        first == CHOOSE k \in threw : \A j \in threw : k <= j
        done == IF threw = {} THEN d.calls ELSE SubSeq(d.calls, 1, first)
        keys == SelectSeq(d.keys, LAMBDA id : \E k \in DOMAIN done : done[k].id = id)
        applied == [out |-> <<>>, calls |-> done,
                    errs |-> IF threw = {} THEN <<>> ELSE <<UpdateLog>>]
    IN IF connecting
       THEN Join(applied, sendGroupEvent(s, keys, UPDATE_EVENT, g))
       ELSE applied

\* Variant of dispatchUpdates: the answer to a connect is left to the timer.
dispatchUpdates_pongOnTick(s, senderId, updates, connecting, g, u) ==
    LET d == dispatchLoop(s, senderId, updates, connecting, u, IdOrder,
                          [keys |-> <<>>, calls |-> <<>>, errs |-> <<>>])
    IN [out |-> <<>>, calls |-> d.calls, errs |-> d.errs]

dispatchUpdates(s, senderId, updates, connecting, g, u) ==
    LET d == dispatchLoop(s, senderId, updates, connecting, u, IdOrder,
                          [keys |-> <<>>, calls |-> <<>>, errs |-> <<>>])
        applied == [out |-> <<>>, calls |-> d.calls, errs |-> d.errs]
    IN IF connecting
       THEN Join(applied, sendGroupEvent(s, d.keys, UPDATE_EVENT, g))
       ELSE applied

\* typeof message.content == "object" (true of null, which has no keys).
ContentIsObject(msg) == msg.kind # Primitive

\* The "signal" listener of the constructor.
\* Variant of onSignal: the test of the local flag is inverted.
onSignal_onlyLocal(s, msg, local, g, u) ==
    IF local /\ ContentIsObject(msg)
    THEN IF msg.type = CONNECT_EVENT
         THEN dispatchUpdates(s, msg.clientId, msg.content, TRUE, g, u)
         ELSE IF msg.type = UPDATE_EVENT
         THEN dispatchUpdates(s, msg.clientId, msg.content, FALSE, g, u)
         ELSE NoEffects
    ELSE NoEffects

\* Variant of onSignal: does not test the local flag.
onSignal_handlesLocal(s, msg, local, g, u) ==
    IF ContentIsObject(msg)
    THEN IF msg.type = CONNECT_EVENT
         THEN dispatchUpdates(s, msg.clientId, msg.content, TRUE, g, u)
         ELSE IF msg.type = UPDATE_EVENT
         THEN dispatchUpdates(s, msg.clientId, msg.content, FALSE, g, u)
         ELSE NoEffects
    ELSE NoEffects

onSignal(s, msg, local, g, u) ==
    IF ~local /\ ContentIsObject(msg)
    THEN IF msg.type = CONNECT_EVENT
         THEN dispatchUpdates(s, msg.clientId, msg.content, TRUE, g, u)
         ELSE IF msg.type = UPDATE_EVENT
         THEN dispatchUpdates(s, msg.clientId, msg.content, FALSE, g, u)
         ELSE NoEffects
    ELSE NoEffects

\* The setInterval callback.
onTimer(s, g) == sendGroupEvent(s, s.connectedKeys, UPDATE_EVENT, g)

\* ------------------------------------------------------------------ LiveObjectSynchronizer

\* static registerObject: get or create the container's synchronizer, then
\* register the object with it.
LiveObjectSynchronizer_registerObject(ss, reg, id, owner, conn, r) ==
    LET ss1 == IF reg = 0 THEN Append(ss, NewContainerSynchronizer) ELSE ss
        reg1 == IF reg = 0 THEN Len(ss) + 1 ELSE reg
        res == registerObject(ss1[reg1], id, owner, conn, r)
    IN [syncs |-> [ss1 EXCEPT ![reg1] = res.s], registry |-> reg1,
        thrown |-> res.thrown, out |-> res.out, calls |-> res.calls, errs |-> res.errs]

\* static unregisterObject.
LiveObjectSynchronizer_unregisterObject(ss, reg, id) ==
    IF reg # 0
    THEN LET res == unregisterObject(ss[reg], id)
         IN [syncs |-> [ss EXCEPT ![reg] = res.s],
             registry |-> IF res.lastObject THEN 0 ELSE reg]
    ELSE [syncs |-> ss, registry |-> reg]

\* Variant of dispose: no _isDisposed guard.
dispose_unguarded(fs, ss, reg, f) ==
    [facades |-> [fs EXCEPT ![f].isDisposed = TRUE]]
    @@ LiveObjectSynchronizer_unregisterObject(ss, reg, fs[f].id)

\* dispose() of facade f.
dispose(fs, ss, reg, f) ==
    IF ~fs[f].isDisposed
    THEN [facades |-> [fs EXCEPT ![f].isDisposed = TRUE]]
         @@ LiveObjectSynchronizer_unregisterObject(ss, reg, fs[f].id)
    ELSE [facades |-> fs, syncs |-> ss, registry |-> reg]

\* ------------------------------------------------------------------ event delivery

\* The runtime calls the "connected" listener of every synchronizer, in the
\* order in which they subscribed.
RECURSIVE emitConnected(_, _, _, _)
emitConnected(ss, g, i, acc) ==
    IF i > Len(ss) THEN acc
    ELSE LET res == onConnected(ss[i], g)
         IN emitConnected(ss, g, i + 1,
                [syncs |-> Append(acc.syncs, res.s)]
                @@ Join(acc, res))

\* The container runtime calls the "signal" listener of every synchronizer.
RECURSIVE emitSignal(_, _, _, _, _, _, _)
emitSignal(ss, msg, local, g, u, i, acc) ==
    IF i > Len(ss) THEN acc
    ELSE emitSignal(ss, msg, local, g, u, i + 1, Join(acc, onSignal(ss[i], msg, local, g, u)))

\* ------------------------------------------------------------------ callbacks and inputs

\* Ids some synchronizer holds handlers for.
Registered == UNION {DOMAIN syncs[i].objects : i \in DOMAIN syncs}

\* What the callbacks of the ids in rel do when called in this step.  A
\* callback outside rel is not called, so its outcome is fixed to dflt.
Outcomes(rel, vals, dflt) ==
    {f \in [Ids -> vals \cup {dflt}] : \A x \in Ids : (x \notin rel => f[x] = dflt) /\ (x \in rel => f[x] \in vals)}

\* Keyed payloads whose values are drawn from vals.
Payloads(vals) == UNION {[S -> vals] : S \in SUBSET Ids}

\* The inbound signals of the lifecycle specification: connect and update
\* signals that carry a state object for any set of ids, and one signal of
\* another type.
Messages ==
    {Msg(t, c, "object", p) : t \in {CONNECT_EVENT, UPDATE_EVENT},
                              c \in RemoteClients, p \in Payloads({"s1"})}
    \cup {Msg(OTHER_EVENT, c, "object", [x \in Ids |-> "s1"]) : c \in RemoteClients}

\* Signals the local client submitted itself, as the container echoes them.
LocalMessages ==
    {Msg(t, "A", "object", [x \in Ids |-> "s1"]) : t \in {CONNECT_EVENT, UPDATE_EVENT}}

\* Payloads of the payload specification: a state object, null, undefined
\* or a primitive for one id, and the same beside a state object of a
\* second id.
OnePayloads == [{"o1"} -> InVals]

MixedPayloads == {p \in [Ids -> InVals] : p["o1"] # "s1" /\ p["o2"] = "s1"}

\* The inbound signals of the payload specification: connect and update
\* signals with these payloads, signals whose content is null or a
\* primitive, a signal without a sender (clientId null) and a signal of
\* another type.
PayloadMessages ==
    {Msg(t, c, "object", p) : t \in {CONNECT_EVENT, UPDATE_EVENT},
                              c \in RemoteClients, p \in OnePayloads}
    \cup {Msg(UPDATE_EVENT, c, "object", p) : c \in RemoteClients, p \in MixedPayloads}
    \cup {Msg(CONNECT_EVENT, c, k, EmptyContent) : c \in RemoteClients, k \in {Null, Primitive}}
    \cup {Msg(UPDATE_EVENT, Null, "object", [x \in {"o1"} |-> "s1"])}
    \cup {Msg(OTHER_EVENT, c, "object", [x \in {"o1"} |-> "s1"]) : c \in RemoteClients}

\* Ids of msg whose updateState / getState can be reached by a remote signal.
Dispatched(msg, local) ==
    IF ~local /\ msg.type \in {CONNECT_EVENT, UPDATE_EVENT}
    THEN {id \in DOMAIN msg.content \cap Registered : TypeofObject(msg.content[id])}
    ELSE {}

Ponged(msg, local) ==
    IF ~local /\ msg.type = CONNECT_EVENT THEN DOMAIN msg.content \cap Registered ELSE {}

\* Ids whose getState the "connected" listeners / the timer of synchronizer i
\* can reach.
Pending == UNION {Range(syncs[i].unconnectedKeys) \cap DOMAIN syncs[i].objects : i \in DOMAIN syncs}

Ticked(i) == Range(syncs[i].connectedKeys) \cap DOMAIN syncs[i].objects

\* ------------------------------------------------------------------ two peers

\* Two clients of one container.  Each has its own runtime, its own
\* ContainerSynchronizer and one live object with the id PeerObject.
Peers == {"A", "B"}

Other(p) == IF p = "A" THEN "B" ELSE "A"

PeerObject == "o1"

\* Lexicographic order of the client ids.
ClientIds == {"A", "AB", "B"}

\* The characters of a clientId, as their code units.
Spelling == [c \in ClientIds |-> IF c = "A" THEN <<65>> ELSE IF c = "B" THEN <<66>> ELSE <<65, 66>>]

\* s < t for strings: the first difference decides, a proper prefix is smaller.
RECURSIVE LexLess(_, _)
LexLess(s, t) ==
    IF t = <<>> THEN FALSE
    ELSE IF s = <<>> THEN TRUE
    ELSE IF Head(s) # Head(t) THEN Head(s) < Head(t)
    ELSE LexLess(Tail(s), Tail(t))

\* Position of a clientId in the lexicographic order.
ClientRank ==
    [c \in ClientIds |-> 1 + Cardinality({d \in ClientIds : LexLess(Spelling[d], Spelling[c])})]

\* The (timestamp, clientId) a state embeds.
Stamp ==
    [s \in StateVals |-> IF s = "s1" THEN [timestamp |-> 1000, clientId |-> "B"]
                                      ELSE [timestamp |-> 1000, clientId |-> "A"]]

\* Variant of IsNewer: equal timestamps are not told apart.
IsNewer_timestampOnly(a, b) ==
    a.timestamp > b.timestamp

\* LiveEvent.isNewer(a, b): a is newer than b.
IsNewer(a, b) ==
    \/ a.timestamp > b.timestamp
    \/ a.timestamp = b.timestamp /\ ClientRank[a.clientId] > ClientRank[b.clientId]

\* The updateState callback of a peer's live object: keeps the received
\* state only when it is newer than the state it holds.
applyRemoteState(held, state) ==
    IF IsNewer(Stamp[state], Stamp[held]) THEN state ELSE held

\* The state the object holds after the updateState calls among cs.
RECURSIVE applyAll(_, _)
applyAll(held, cs) ==
    IF cs = <<>> THEN held
    ELSE applyAll(IF Head(cs).fn = "updateState" THEN applyRemoteState(held, Head(cs).state) ELSE held,
                  Tail(cs))

\* The getState callback of a peer's live object: the state it holds.
PeerState(held) == [x \in Ids |-> held]

AlwaysOk == [x \in Ids |-> Ok]

NewPeer(conn, held) ==
    [sync |-> NewContainerSynchronizer, connected |-> conn, registered |-> FALSE,
     initial |-> held, held |-> held]

\* submitSignal of peer p: the container carries each signal to the other peer.
Broadcast(p, sigs) ==
    {[to |-> Other(p), msg |-> Msg(sigs[k].type, p, "object", sigs[k].content)] : k \in DOMAIN sigs}

IdlePeers ==
    /\ peers = [p \in Peers |-> NewPeer(FALSE, "s1")]
    /\ net = {}

\* ------------------------------------------------------------------ event scope

\* UserMeetingRole values, event names, and the clientId a payload can
\* claim: none, or one that is not the sender's.
Roles == {"Presenter", "Attendee"}

EventNames == {"e1", "e2"}

Absent == "absent"

TypeError == "TypeError"

InvalidRole == "SharedEvent:invalidRole"

\* A listener passed to onEvent either returns or throws when it is called.
ListenerKinds == {Ok, Throws}

\* An inbound signal of the runtime: content is the event a sender
\* submitted when kind is "object".
ScopeMsg(type, clientId, kind, content) ==
    [type |-> type, clientId |-> clientId, kind |-> kind, content |-> content]

NoEvent == [clientId |-> Absent, name |-> Absent]

\* listeners[name] are the listeners of the emitter in the order of their
\* registration.
NewLiveEventScope ==
    [allowedRoles |-> {}, listeners |-> [n \in EventNames |-> <<>>], lookups |-> <<>>]

NoScopeObs ==
    [events |-> <<>>, telemetry |-> <<>>, errors |-> <<>>, thrown |-> NoError,
     arrived |-> <<>>, settled |-> <<>>, send |-> <<>>, sent |-> <<>>, returned |-> <<>>]

\* LiveEvent.verifyRolesAllowed(clientId, allowed) for a client with the
\* roles `roles`.
verifyRolesAllowed(roles, allowed) == allowed = {} \/ roles \cap allowed # {}

\* The role verifier is asked for the sender's roles, and can fail, only
\* when there are roles to compare with.
verifierConsulted(allowed) == allowed # {}

\* Variant of onScopeSignal: the clientId of the content is left as sent.
onScopeSignal_trustsPayload(sc, conn, msg, local) ==
    IF msg.kind # "object"
    THEN [scope |-> sc, thrown |-> TypeError]
    ELSE IF conn /\ msg.clientId # Null
    THEN [scope |-> [sc EXCEPT !.lookups =
                        Append(@, [type |-> msg.type, content |-> msg.content,
                                   local |-> local, message |-> msg, allowed |-> sc.allowedRoles,
                                   connected |-> conn])],
          thrown |-> NoError]
    ELSE [scope |-> sc, thrown |-> NoError]

\* Variant of onScopeSignal: the name of the content is overwritten too.
onScopeSignal_rewritesName(sc, conn, msg, local) ==
    IF msg.kind # "object"
    THEN [scope |-> sc, thrown |-> TypeError]
    ELSE IF conn /\ msg.clientId # Null
    THEN [scope |-> [sc EXCEPT !.lookups =
                        Append(@, [type |-> msg.type,
                                   content |-> [msg.content EXCEPT !.clientId = msg.clientId,
                                                                   !.name = msg.type],
                                   local |-> local, message |-> msg, allowed |-> sc.allowedRoles,
                                   connected |-> conn])],
          thrown |-> NoError]
    ELSE [scope |-> sc, thrown |-> NoError]

\* Variant of onScopeSignal: the connection of the runtime is not looked at.
onScopeSignal_whileDisconnected(sc, conn, msg, local) ==
    IF msg.kind # "object"
    THEN [scope |-> sc, thrown |-> TypeError]
    ELSE IF msg.clientId # Null
    THEN [scope |-> [sc EXCEPT !.lookups =
                        Append(@, [type |-> msg.type,
                                   content |-> [msg.content EXCEPT !.clientId = msg.clientId],
                                   local |-> local, message |-> msg, allowed |-> sc.allowedRoles,
                                   connected |-> conn])],
          thrown |-> NoError]
    ELSE [scope |-> sc, thrown |-> NoError]

\* The "signal" listener of the constructor: the content's clientId is
\* overwritten with message.clientId (an assignment that throws when the
\* content is null or a primitive), then the sender's roles are verified
\* with the allowedRoles of this moment; the promise is kept in lookups,
\* together with the connection state the signal arrived in.
onScopeSignal(sc, conn, msg, local) ==
    IF msg.kind # "object"
    THEN [scope |-> sc, thrown |-> TypeError]
    ELSE IF conn /\ msg.clientId # Null
    THEN [scope |-> [sc EXCEPT !.lookups =
                        Append(@, [type |-> msg.type,
                                   content |-> [msg.content EXCEPT !.clientId = msg.clientId],
                                   local |-> local, message |-> msg, allowed |-> sc.allowedRoles,
                                   connected |-> conn])],
          thrown |-> NoError]
    ELSE [scope |-> sc, thrown |-> NoError]

RemoveAt(seq, k) == SubSeq(seq, 1, k - 1) \o SubSeq(seq, k + 1, Len(seq))

\* Position of the first listener that throws, 0 when none does.
FirstThrow(ls) ==
    IF \E k \in DOMAIN ls : ls[k] = Throws
    THEN CHOOSE k \in DOMAIN ls : ls[k] = Throws /\ \A j \in 1..(k - 1) : ls[j] # Throws
    ELSE 0

\* EventEmitter.emit(type, ...) with the listeners ls registered for type:
\* they are called in order, and the exception of one ends the call.
emit(ls) ==
    [invoked |-> IF FirstThrow(ls) = 0 THEN ls ELSE SubSeq(ls, 1, FirstThrow(ls)),
     thrown |-> FirstThrow(ls) # 0]

\* The listener calls of emitter.emit(l.type, l.content, l.local).
Invocations(l, invoked) ==
    [k \in DOMAIN invoked |->
        [name |-> l.type, listener |-> invoked[k], envelope |-> l.content, local |-> l.local,
         message |-> l.message]]

\* Variant of onLookupResolved: the listeners are called whatever value is.
onLookupResolved_noGate(sc, k, value, roles) ==
    LET l == sc.lookups[k]
        res == emit(sc.listeners[l.type])
    IN [scope |-> [sc EXCEPT !.lookups = RemoveAt(@, k)],
        events |-> Invocations(l, res.invoked),
        telemetry |-> IF ~res.thrown THEN <<>> ELSE <<InvalidRole>>,
        errors |-> <<>>]

\* Variant of onLookupResolved: an event is held back while a verification
\* that was started before its own is in flight.
onLookupResolved_inArrivalOrder(sc, k, value, roles) ==
    LET l == sc.lookups[k]
        res == emit(sc.listeners[l.type])
    IN [scope |-> [sc EXCEPT !.lookups = RemoveAt(@, k)],
        events |-> IF value /\ k = 1 THEN Invocations(l, res.invoked) ELSE <<>>,
        telemetry |-> IF value /\ ~res.thrown THEN <<>> ELSE <<InvalidRole>>,
        errors |-> <<>>]

\* Variant of onLookupResolved: the gate is decided again with the
\* allowedRoles the scope has when the lookup resolves.
onLookupResolved_currentRoles(sc, k, value, roles) ==
    LET l == sc.lookups[k]
        res == emit(sc.listeners[l.type])
        now == verifyRolesAllowed(roles, sc.allowedRoles)
    IN [scope |-> [sc EXCEPT !.lookups = RemoveAt(@, k)],
        events |-> IF now THEN Invocations(l, res.invoked) ELSE <<>>,
        telemetry |-> IF now /\ ~res.thrown THEN <<>> ELSE <<InvalidRole>>,
        errors |-> <<>>]

\* The then-callback of lookup k, whose promise resolved with value, and the
\* catch-callback behind it: an exception of emit rejects the promise the
\* catch-callback is chained to. Nothing here emits "error".
onLookupResolved(sc, k, value, roles) ==
    LET l == sc.lookups[k]
        res == emit(sc.listeners[l.type])
    IN [scope |-> [sc EXCEPT !.lookups = RemoveAt(@, k)],
        events |-> IF value THEN Invocations(l, res.invoked) ELSE <<>>,
        telemetry |-> IF value /\ ~res.thrown THEN <<>> ELSE <<InvalidRole>>,
        errors |-> <<>>]

\* The catch-callback of lookup k, whose promise was rejected.
onLookupRejected(sc, k) ==
    [scope |-> [sc EXCEPT !.lookups = RemoveAt(@, k)],
     events |-> <<>>,
     telemetry |-> <<InvalidRole>>,
     errors |-> <<>>]

\* The timestamp of an event that has none.
NoTimestamp == 0

\* runtime.clientId: undefined while the client is disconnected.
RuntimeClientId(conn) == IF conn THEN "A" ELSE Undefined

\* Variant of sendEvent: the fields of evt win over the populated ones.
sendEvent_keepsPartial(conn, eventName, evt, now) ==
    LET clone == [evt EXCEPT !.clientId = IF @ = Absent THEN RuntimeClientId(conn) ELSE @,
                             !.name = IF @ = Absent THEN eventName ELSE @,
                             !.timestamp = IF @ = NoTimestamp THEN now ELSE @]
    IN [sent |-> <<[type |-> eventName, content |-> clone]>>,
        returned |-> <<clone>>,
        evt |-> evt]

\* sendEvent(eventName, evt): the clone takes every field of evt, then
\* clientId, name and timestamp; it is submitted and returned.
sendEvent(conn, eventName, evt, now) ==
    LET clone == [evt EXCEPT !.clientId = RuntimeClientId(conn),
                             !.name = eventName,
                             !.timestamp = now]
    IN [sent |-> <<[type |-> eventName, content |-> clone]>>,
        returned |-> <<clone>>,
        evt |-> evt]

IdleScope ==
    /\ scope = NewLiveEventScope
    /\ scopeObs = NoScopeObs

\* ------------------------------------------------------------------ freshness

\* The (timestamp, clientId) pairs of events.
Stamps == [timestamp : {1000, 1001}, clientId : ClientIds]

NoComparison == <<>>

\* The results of isNewer on the pairs of three events.
Compare(a, b, c) ==
    [ab |-> IsNewer(a, b), ba |-> IsNewer(b, a),
     bc |-> IsNewer(b, c), cb |-> IsNewer(c, b),
     ac |-> IsNewer(a, c), ca |-> IsNewer(c, a)]

IdleFreshness == fresh = [a |-> CHOOSE s \in Stamps : TRUE, b |-> CHOOSE s \in Stamps : TRUE,
                          c |-> CHOOSE s \in Stamps : TRUE, newer |-> NoComparison]

\* ------------------------------------------------------------------ volume manager

\* Volumes and limit levels in hundredths; the frames a ramp of
\* volumeChangeDuration is made of.
RampFrames == 4

FullVolume == 100

DefaultLimitLevel == 10

SelectedVolumes == {30, 70, 80, 100}

LimitLevels == {10, 50}

LimitLevelTypes == {"fixed", "percentage"}

\* new VolumeManager(player) for a player at full volume; no ramp is running.
NewVolumeManager ==
    [player |-> FullVolume,
     volume |-> FullVolume,
     limitLevel |-> DefaultLimitLevel,
     limitLevelType |-> "fixed",
     isLimiting |-> FALSE,
     startVolume |-> FullVolume,
     elapsed |-> RampFrames,
     lastCall |-> "new"]

\* Variant of limitTarget: the limit level is taken as a volume in both modes.
limitTarget_fixedOnly(v) ==
    v.limitLevel

\* The volume limiting ramps to.
limitTarget(v) ==
    IF v.limitLevelType = "percentage"
    THEN (v.limitLevel * v.volume) \div 100
    ELSE v.limitLevel

\* The volume the player is ramped to.
targetVolume(v) == IF v.isLimiting THEN limitTarget(v) ELSE v.volume

\* Variant of rampVolume: the ramp takes twice the duration.
rampVolume_halfSpeed(start, target, elapsed) ==
    start + ((target - start) * elapsed) \div (2 * RampFrames)

\* The player volume `elapsed` frames into a ramp from start to target.
rampVolume(start, target, elapsed) ==
    start + ((target - start) * elapsed) \div RampFrames

\* A call that changes the target starts a ramp from the player's volume.
startRamp(v, call) ==
    [v EXCEPT !.startVolume = v.player, !.elapsed = 0, !.lastCall = call]

IdleVolume == vol = NewVolumeManager

\* ------------------------------------------------------------------ inking controls

\* The tools the four InkingControlButtons select.
InkingTools == {"laserPointer", "pen", "highlighter", "eraser"}

\* No call of the component yet.
NoInkCall == [op |-> "none", tool |-> "-", selectedTool |-> "-", isEnabled |-> FALSE, enabled |-> FALSE]

\* The component as it renders first: useState(inkingManager.tool), with the
\* isEnabled its parent passes.  tool is inkingManager.tool.
NewInkingControls(tool, isEnabled) ==
    [tool |-> tool, selectedTool |-> tool, isEnabled |-> isEnabled,
     prev |-> NoInkCall, last |-> NoInkCall]

\* Variant of onSelectTool: every selection flips isEnabled.
onSelectTool_alwaysToggles(c, tool) ==
    [c EXCEPT !.tool = IF tool # c.selectedTool THEN tool ELSE @,
              !.selectedTool = IF tool # c.selectedTool THEN tool ELSE @,
              !.isEnabled = ~c.isEnabled]

\* onSelectTool(tool), with the selectedTool and isEnabled of the render the
\* callback belongs to.
onSelectTool(c, tool) ==
    [c EXCEPT !.tool = IF tool # c.selectedTool THEN tool ELSE @,
              !.selectedTool = IF tool # c.selectedTool THEN tool ELSE @,
              !.isEnabled = IF c.isEnabled /\ tool = c.selectedTool THEN FALSE ELSE TRUE]

IdleInking == ink = NewInkingControls("pen", FALSE)

\* ------------------------------------------------------------------ live notifications

\* The delay of the removal timeout in ms, the number of steps in which the
\* model lets that time pass, and the number of notifications displayed at
\* once.
RemovalDelay == 1500
TicksPerDelay == 3
MaxShown == 3

\* The values of notificationToDisplay, and the ids Math.random() yields
\* (nothing keeps two notifications from drawing the same id).
NoText == "undefined"
Texts == {"t1", "t2"}
NotificationIds == {"n1", "n2"}

\* A displayed notification; age counts the steps of time since it was
\* added (not a field of the program's Notification).
Notification(id, text) == [id |-> id, text |-> text, age |-> 0]

AgeMs(n) == (n.age * RemovalDelay) \div TicksPerDelay

\* The component after its first render without a notification.  timers
\* holds the pending setTimeout callbacks in the order they were set, each
\* with the notificationId of its closure and the steps left.
NewLiveNotifications ==
    [notificationToDisplay |-> NoText,
     notificationsRef |-> <<>>,
     notifications |-> <<>>,
     timers |-> <<>>,
     lastOp |-> "render"]

\* findIndex((notification) => notification.id === notificationId); 0 for -1.
findIndex(list, notificationId) ==
    IF \E k \in DOMAIN list : list[k].id = notificationId
    THEN CHOOSE k \in DOMAIN list :
            /\ list[k].id = notificationId
            /\ \A j \in 1..(k - 1) : list[j].id # notificationId
    ELSE 0

\* The effect of a changed notificationToDisplay: display the notification
\* and set the timeout that removes it.
displayNotification(c, text, notificationId) ==
    LET updatedNotifications == Append(c.notificationsRef, Notification(notificationId, text))
    IN [c EXCEPT !.notificationsRef = updatedNotifications,
                 !.notifications = updatedNotifications,
                 !.timers = Append(@, [id |-> notificationId, left |-> TicksPerDelay])]

\* Variant of removeNotification: the callback resets the list.
removeNotification_clearsAll(c, notificationId) ==
    [c EXCEPT !.notificationsRef = <<>>, !.notifications = <<>>]

\* The setTimeout callback of the notification with notificationId.
removeNotification(c, notificationId) ==
    LET matchIndex == findIndex(c.notificationsRef, notificationId)
        resetNotifications == RemoveAt(c.notificationsRef, matchIndex)
    IN IF matchIndex >= 1
       THEN [c EXCEPT !.notificationsRef = resetNotifications,
                      !.notifications = resetNotifications]
       ELSE c

IdleNotifications == notes = NewLiveNotifications

\* ------------------------------------------------------------------ actions

\* No facade was constructed yet.
IdleSynchronizer ==
    /\ syncs = <<>>
    /\ registry = 0
    /\ facades = <<>>
    /\ op = NoOp
    /\ out = <<>>
    /\ calls = <<>>
    /\ errs = <<>>
    /\ thrown = NoError

Init ==
    /\ connected \in BOOLEAN
    /\ IdleSynchronizer
    /\ IdlePeers
    /\ IdleScope
    /\ IdleFreshness
    /\ IdleVolume
    /\ IdleInking
    /\ IdleNotifications

\* new LiveObjectSynchronizer(id, runtime, containerRuntime, getState, updateState)
Construct(id, max) ==
    /\ Len(facades) < max
    /\ \E r \in (IF connected THEN GetResults ELSE {Undefined}) :
        LET owner == IF connected /\ r = Throws THEN 0 ELSE Len(facades) + 1
            res == LiveObjectSynchronizer_registerObject(syncs, registry, id, owner, connected, r)
        IN /\ syncs' = res.syncs
           /\ registry' = res.registry
           /\ facades' = IF res.thrown = NoError
                          THEN Append(facades, [id |-> id, isDisposed |-> FALSE])
                          ELSE facades
           /\ out' = res.out
           /\ calls' = res.calls
           /\ errs' = res.errs
           /\ thrown' = res.thrown
    /\ op' = [NoOp EXCEPT !.name = "construct", !.id = id, !.conn = connected]
    /\ UNCHANGED connected
    /\ UNCHANGED notSynchronizer

\* facade.dispose()
Dispose(f) ==
    /\ f \in DOMAIN facades
    /\ LET res == dispose(facades, syncs, registry, f)
       IN /\ facades' = res.facades
          /\ syncs' = res.syncs
          /\ registry' = res.registry
    /\ op' = [NoOp EXCEPT !.name = "dispose", !.id = facades[f].id, !.facade = f, !.conn = connected]
    /\ out' = <<>>
    /\ calls' = <<>>
    /\ errs' = <<>>
    /\ thrown' = NoError
    /\ UNCHANGED connected
    /\ UNCHANGED notSynchronizer

\* The runtime connects (or re-connects) and emits "connected".
RuntimeConnected ==
    /\ ~connected
    /\ connected' = TRUE
    /\ \E g \in Outcomes(Pending, GetResults, Undefined) :
        LET res == emitConnected(syncs, g, 1, [syncs |-> <<>>] @@ NoEffects)
        IN /\ syncs' = res.syncs
           /\ out' = res.out
           /\ calls' = res.calls
           /\ errs' = res.errs
    /\ op' = [NoOp EXCEPT !.name = "connected", !.conn = TRUE]
    /\ thrown' = NoError
    /\ UNCHANGED <<registry, facades>>
    /\ UNCHANGED notSynchronizer

\* The runtime loses its connection; no listener of the synchronizer runs.
RuntimeDisconnected ==
    /\ connected
    /\ connected' = FALSE
    /\ op' = [NoOp EXCEPT !.name = "disconnected"]
    /\ out' = <<>>
    /\ calls' = <<>>
    /\ errs' = <<>>
    /\ thrown' = NoError
    /\ UNCHANGED <<syncs, registry, facades>>
    /\ UNCHANGED notSynchronizer

\* One firing of the interval timer of synchronizer i.
Tick(i) ==
    /\ i \in DOMAIN syncs
    /\ syncs[i].intervals > 0
    /\ \E g \in Outcomes(Ticked(i), GetResults, Undefined) :
        LET res == onTimer(syncs[i], g)
        IN /\ out' = res.out
           /\ calls' = res.calls
           /\ errs' = res.errs
    /\ op' = [NoOp EXCEPT !.name = "tick", !.facade = i, !.conn = connected]
    /\ thrown' = NoError
    /\ UNCHANGED <<connected, syncs, registry, facades>>
    /\ UNCHANGED notSynchronizer

\* The container runtime delivers a signal.
InboundSignal(msg, local) ==
    /\ \E g \in Outcomes(Ponged(msg, local), GetResults, Undefined) :
       \E u \in Outcomes(Dispatched(msg, local), {Ok, Throws}, Ok) :
        LET res == emitSignal(syncs, msg, local, g, u, 1, NoEffects)
        IN /\ out' = res.out
           /\ calls' = res.calls
           /\ errs' = res.errs
    /\ op' = [NoOp EXCEPT !.name = "signal", !.msg = msg, !.local = local, !.conn = connected]
    /\ thrown' = NoError
    /\ UNCHANGED <<connected, syncs, registry, facades>>
    /\ UNCHANGED notSynchronizer

\* The lifecycle: construction and disposal of facades, the runtime's
\* connection and the interval timer.
Next ==
    \/ \E id \in Ids : Construct(id, MaxFacades)
    \/ \E f \in 1..MaxFacades : Dispose(f)
    \/ RuntimeConnected
    \/ RuntimeDisconnected
    \/ \E i \in 1..(MaxFacades + 1) : Tick(i)

Spec == Init /\ [][Next]_vars

\* The lifecycle together with the signals the container delivers.
NextSignals ==
    \/ \E id \in Ids : Construct(id, MaxSignalFacades)
    \/ \E f \in 1..MaxSignalFacades : Dispose(f)
    \/ RuntimeConnected
    \/ RuntimeDisconnected
    \/ \E i \in 1..(MaxSignalFacades + 1) : Tick(i)
    \/ \E msg \in Messages : InboundSignal(msg, FALSE)
    \/ \E msg \in LocalMessages : InboundSignal(msg, TRUE)

SpecSignals == Init /\ [][NextSignals]_vars

\* The lifecycle together with signals of every kind of payload, delivered
\* as remote and as local signals.
NextPayloads ==
    \/ \E id \in Ids : Construct(id, MaxPayloadFacades)
    \/ \E f \in 1..MaxPayloadFacades : Dispose(f)
    \/ RuntimeConnected
    \/ RuntimeDisconnected
    \/ \E i \in 1..(MaxPayloadFacades + 1) : Tick(i)
    \/ \E msg \in PayloadMessages : \E local \in BOOLEAN : InboundSignal(msg, local)

SpecPayloads == Init /\ [][NextPayloads]_vars

\* ------------------------------------------------------------------ actions of the peers

InitPeers ==
    /\ connected = FALSE
    /\ IdleSynchronizer
    /\ IdleScope
    /\ IdleFreshness
    /\ IdleVolume
    /\ IdleInking
    /\ IdleNotifications
    /\ peers \in [Peers -> {NewPeer(c, h) : c \in BOOLEAN, h \in StateVals}]
    /\ net = {}

\* Peer p constructs the LiveObjectSynchronizer of its object.
PeerRegister(p) ==
    /\ ~peers[p].registered
    /\ LET res == registerObject(peers[p].sync, PeerObject, 1, peers[p].connected, peers[p].held)
       IN /\ peers' = [peers EXCEPT ![p].sync = res.s, ![p].registered = TRUE]
          /\ net' = net \cup Broadcast(p, res.out)
    /\ UNCHANGED notPeers

\* The runtime of peer p connects and emits "connected".
PeerConnected(p) ==
    /\ ~peers[p].connected
    /\ LET res == onConnected(peers[p].sync, PeerState(peers[p].held))
       IN /\ peers' = [peers EXCEPT ![p].sync = res.s, ![p].connected = TRUE]
          /\ net' = net \cup Broadcast(p, res.out)
    /\ UNCHANGED notPeers

\* The runtime of peer p loses its connection.
PeerDisconnected(p) ==
    /\ peers[p].connected
    /\ peers' = [peers EXCEPT ![p].connected = FALSE]
    /\ UNCHANGED <<net, notPeers>>

\* One firing of the interval timer of peer p.
PeerTick(p) ==
    /\ peers[p].sync.intervals > 0
    /\ net' = net \cup Broadcast(p, onTimer(peers[p].sync, PeerState(peers[p].held)).out)
    /\ UNCHANGED <<peers, notPeers>>

\* The container delivers the signal m to its receiver: updateState runs
\* first, and a pong is built from the state the object holds afterwards.
Deliver(m) ==
    /\ m \in net
    /\ \E held \in {applyAll(peers[m.to].held,
                             onSignal(peers[m.to].sync, m.msg, FALSE,
                                      PeerState(peers[m.to].held), AlwaysOk).calls)} :
       \E res \in {onSignal(peers[m.to].sync, m.msg, FALSE, PeerState(held), AlwaysOk)} :
            /\ peers' = [peers EXCEPT ![m.to].held = held]
            /\ net' = (net \ {m}) \cup Broadcast(m.to, res.out)
    /\ UNCHANGED notPeers

\* Every signal a peer can submit.
PeerSignals ==
    {[to |-> q, msg |-> Msg(t, Other(q), "object", [x \in {PeerObject} |-> s])] :
        q \in Peers, t \in {CONNECT_EVENT, UPDATE_EVENT}, s \in StateVals}

NextPeers ==
    \/ \E p \in Peers : PeerRegister(p)
    \/ \E p \in Peers : PeerConnected(p)
    \/ \E p \in Peers : PeerDisconnected(p)
    \/ \E p \in Peers : PeerTick(p)
    \/ \E m \in PeerSignals : Deliver(m)

\* The timers keep firing, a runtime that is disconnected connects again,
\* and every signal in flight is delivered: a signal leaves net only by
\* Deliver, which is enabled for as long as the signal is in net.
FairPeers ==
    /\ \A p \in Peers : WF_vars(PeerTick(p))
    /\ \A p \in Peers : WF_vars(PeerConnected(p))
    /\ \A m \in PeerSignals : []<>(m \notin net)

SpecPeers == InitPeers /\ [][NextPeers]_vars /\ FairPeers

\* ------------------------------------------------------------------ actions of the event scope

\* Number of role verifications in flight at a time, and of listeners
\* registered at a time.
MaxLookups == 2
MaxListeners == 2

\* The events senders submit as content of a signal of type t: sent while
\* disconnected (no clientId), and forged ones that claim the clientId "X"
\* and another name.
EventPayloads(t) ==
    {[clientId |-> Absent, name |-> t],
     [clientId |-> "X", name |-> "forged"]}

\* The signals the runtime hands to the scope: events of the local client
\* "A" (local = true), of the remote client "B" and of a sender the carrier
\* does not identify; and signals whose content is null or a primitive.
ScopeSignals ==
    UNION {{[msg |-> ScopeMsg(t, c, "object", p), local |-> (c = "A")] :
                c \in {"A", "B", Null}, p \in EventPayloads(t)} : t \in EventNames}
    \cup {[msg |-> ScopeMsg("e1", "B", k, NoEvent), local |-> FALSE] : k \in {Null, Primitive}}

\* The role sets the role verifier returns for a sender.
RoleSets == {{"Attendee"}, {"Presenter"}}

\* The partial events passed to sendEvent and the values of
\* LiveEvent.getTimestamp().
Partials ==
    [clientId : {Absent, "X"}, name : {Absent, "forged"}, timestamp : {NoTimestamp, 1},
     data : {"d1"}]

Times == {1000, 1001}

InitScope ==
    /\ connected \in BOOLEAN
    /\ IdleSynchronizer
    /\ IdlePeers
    /\ IdleScope
    /\ IdleFreshness
    /\ IdleVolume
    /\ IdleInking
    /\ IdleNotifications

\* The runtime delivers a signal to the scope.
ScopeSignal(d) ==
    /\ Len(scope.lookups) < MaxLookups
    /\ LET res == onScopeSignal(scope, connected, d.msg, d.local)
       IN /\ scope' = res.scope
          /\ scopeObs' = [NoScopeObs EXCEPT !.thrown = res.thrown,
                                            !.arrived = <<[clientId |-> d.msg.clientId,
                                                           connected |-> connected]>>]
    /\ UNCHANGED <<connected, notScope>>

\* The role verification k completes for a sender that has the roles `roles`.
LookupResolves(k, roles) ==
    /\ k \in DOMAIN scope.lookups
    /\ LET l == scope.lookups[k]
           value == verifyRolesAllowed(roles, l.allowed)
           res == onLookupResolved(scope, k, value, roles)
       IN /\ scope' = res.scope
          /\ scopeObs' = [NoScopeObs EXCEPT !.events = res.events,
                                            !.telemetry = res.telemetry,
                                            !.errors = res.errors,
                                            !.settled = <<[lookup |-> l, roles |-> roles,
                                                           rejected |-> FALSE, index |-> k]>>]
    /\ UNCHANGED <<connected, notScope>>

\* The role verification k fails.
LookupRejects(k) ==
    /\ k \in DOMAIN scope.lookups
    /\ verifierConsulted(scope.lookups[k].allowed)
    /\ LET l == scope.lookups[k]
           res == onLookupRejected(scope, k)
       IN /\ scope' = res.scope
          /\ scopeObs' = [NoScopeObs EXCEPT !.events = res.events,
                                            !.telemetry = res.telemetry,
                                            !.errors = res.errors,
                                            !.settled = <<[lookup |-> l, roles |-> {},
                                                           rejected |-> TRUE, index |-> k]>>]
    /\ UNCHANGED <<connected, notScope>>

\* scope.allowedRoles = roles
SetAllowedRoles(roles) ==
    /\ scope.allowedRoles # roles
    /\ scope' = [scope EXCEPT !.allowedRoles = roles]
    /\ scopeObs' = NoScopeObs
    /\ UNCHANGED <<connected, notScope>>

\* Number of listeners registered with the emitter.
ListenerCount == Len(scope.listeners["e1"]) + Len(scope.listeners["e2"])

\* scope.onEvent(name, listener)
OnEvent(name, listener) ==
    /\ ListenerCount < MaxListeners
    /\ scope' = [scope EXCEPT !.listeners[name] = Append(@, listener)]
    /\ scopeObs' = NoScopeObs
    /\ UNCHANGED <<connected, notScope>>

\* scope.offEvent(name, listener) for the listener registered k-th.
OffEvent(name, k) ==
    /\ k \in DOMAIN scope.listeners[name]
    /\ scope' = [scope EXCEPT !.listeners[name] = RemoveAt(@, k)]
    /\ scopeObs' = NoScopeObs
    /\ UNCHANGED <<connected, notScope>>

\* scope.sendEvent(eventName, evt) at time now.
SendEvent(eventName, evt, now) ==
    /\ LET res == sendEvent(connected, eventName, evt, now)
       IN scopeObs' = [NoScopeObs EXCEPT !.sent = res.sent,
                                         !.returned = res.returned,
                                         !.send = <<[eventName |-> eventName, evt |-> evt,
                                                     evtAfter |-> res.evt, now |-> now,
                                                     connected |-> connected]>>]
    /\ UNCHANGED <<scope, connected, notScope>>

NextScope ==
    \/ \E d \in ScopeSignals : ScopeSignal(d)
    \/ \E k \in 1..MaxLookups : \E roles \in RoleSets : LookupResolves(k, roles)
    \/ \E k \in 1..MaxLookups : LookupRejects(k)
    \/ \E roles \in {{}, {"Presenter"}} : SetAllowedRoles(roles)
    \/ \E name \in EventNames : \E listener \in ListenerKinds : OnEvent(name, listener)
    \/ \E name \in EventNames : \E k \in 1..MaxListeners : OffEvent(name, k)
    \/ RuntimeConnected
    \/ RuntimeDisconnected

SpecScope == InitScope /\ [][NextScope]_vars

\* Sending, with every allowedRoles and connection state.
NextSend ==
    \/ \E name \in EventNames : \E evt \in Partials : \E now \in Times : SendEvent(name, evt, now)
    \/ \E roles \in {{}, {"Presenter"}} : SetAllowedRoles(roles)
    \/ RuntimeConnected
    \/ RuntimeDisconnected

SpecSend == InitScope /\ [][NextSend]_vars

\* ------------------------------------------------------------------ actions of the freshness rule

InitFreshness ==
    /\ connected = FALSE
    /\ IdleSynchronizer
    /\ IdlePeers
    /\ IdleScope
    /\ IdleVolume
    /\ IdleInking
    /\ IdleNotifications
    /\ fresh \in [a : Stamps, b : Stamps, c : Stamps, newer : {NoComparison}]

\* Three events are compared pairwise.
CompareEvents ==
    /\ fresh.newer = NoComparison
    /\ fresh' = [fresh EXCEPT !.newer = Compare(fresh.a, fresh.b, fresh.c)]
    /\ UNCHANGED notFresh

\* Three other events arrive.
NextEvents(a, b, c) ==
    /\ fresh.newer # NoComparison
    /\ fresh' = [a |-> a, b |-> b, c |-> c, newer |-> NoComparison]
    /\ UNCHANGED notFresh

NextFreshness ==
    \/ CompareEvents
    \/ \E a, b, c \in Stamps : NextEvents(a, b, c)

SpecFreshness == InitFreshness /\ [][NextFreshness]_vars

\* ------------------------------------------------------------------ actions of the volume manager

InitVolume ==
    /\ connected = FALSE
    /\ IdleSynchronizer
    /\ IdlePeers
    /\ IdleScope
    /\ IdleFreshness
    /\ IdleVolume
    /\ IdleInking
    /\ IdleNotifications

\* volumeManager.startLimiting()
StartLimiting ==
    /\ vol' = startRamp([vol EXCEPT !.isLimiting = TRUE], "startLimiting")
    /\ UNCHANGED notVolume

\* volumeManager.stopLimiting()
StopLimiting ==
    /\ vol' = startRamp([vol EXCEPT !.isLimiting = FALSE], "stopLimiting")
    /\ UNCHANGED notVolume

\* volumeManager.volume = value
SetVolume(value) ==
    /\ vol' = startRamp([vol EXCEPT !.volume = value], "volume")
    /\ UNCHANGED notVolume

\* volumeManager.limitLevel = value
SetLimitLevel(value) ==
    /\ vol' = startRamp([vol EXCEPT !.limitLevel = value], "limitLevel")
    /\ UNCHANGED notVolume

\* volumeManager.limitLevelType = type
SetLimitLevelType(type) ==
    /\ vol' = startRamp([vol EXCEPT !.limitLevelType = type], "limitLevelType")
    /\ UNCHANGED notVolume

\* One frame of the running ramp passes.
RampFrame ==
    /\ vol.elapsed < RampFrames
    /\ vol' = [vol EXCEPT !.elapsed = @ + 1,
                           !.player = rampVolume(vol.startVolume, targetVolume(vol), vol.elapsed + 1)]
    /\ UNCHANGED notVolume

NextVolume ==
    \/ StartLimiting
    \/ StopLimiting
    \/ \E value \in SelectedVolumes : SetVolume(value)
    \/ \E value \in LimitLevels : SetLimitLevel(value)
    \/ \E type \in LimitLevelTypes : SetLimitLevelType(type)
    \/ RampFrame

SpecVolume == InitVolume /\ [][NextVolume]_vars

\* ------------------------------------------------------------------ actions of the inking controls

InitInking ==
    /\ connected = FALSE
    /\ IdleSynchronizer
    /\ IdlePeers
    /\ IdleScope
    /\ IdleFreshness
    /\ IdleVolume
    /\ IdleNotifications
    /\ \E tool \in InkingTools : \E isEnabled \in BOOLEAN : ink = NewInkingControls(tool, isEnabled)

\* A click on the button of `tool`: the callback runs and the component
\* renders again with the new state.
SelectTool(tool) ==
    /\ ink' = [onSelectTool(ink, tool) EXCEPT
                   !.prev = ink.last,
                   !.last = [op |-> "onSelectTool", tool |-> tool,
                             selectedTool |-> ink.selectedTool, isEnabled |-> ink.isEnabled,
                             enabled |-> onSelectTool(ink, tool).isEnabled]]
    /\ UNCHANGED notInking

\* The parent changes the isEnabled it passes to the component.
ParentSetsEnabled(enabled) ==
    /\ ink.isEnabled # enabled
    /\ ink' = [ink EXCEPT !.isEnabled = enabled,
                          !.prev = ink.last,
                          !.last = [op |-> "isEnabled", tool |-> "-",
                                    selectedTool |-> ink.selectedTool, isEnabled |-> ink.isEnabled,
                                    enabled |-> enabled]]
    /\ UNCHANGED notInking

NextInking ==
    \/ \E tool \in InkingTools : SelectTool(tool)
    \/ \E enabled \in BOOLEAN : ParentSetsEnabled(enabled)

SpecInking == InitInking /\ [][NextInking]_vars

\* ------------------------------------------------------------------ actions of the live notifications

InitNotifications ==
    /\ connected = FALSE
    /\ IdleSynchronizer
    /\ IdlePeers
    /\ IdleScope
    /\ IdleFreshness
    /\ IdleVolume
    /\ IdleInking
    /\ IdleNotifications

\* The parent passes another notificationToDisplay: the effect runs, and
\* for a text it displays the notification under a random id.
NotificationToDisplay(text, notificationId) ==
    /\ text # notes.notificationToDisplay
    /\ Len(notes.notifications) < MaxShown
    /\ notes' = [displayNotification(notes, text, notificationId) EXCEPT
                     !.notificationToDisplay = text, !.lastOp = "display"]
    /\ UNCHANGED notNotifications

\* The parent takes the notification back (undefined): the effect runs and
\* does nothing.
NotificationCleared ==
    /\ notes.notificationToDisplay # NoText
    /\ notes' = [notes EXCEPT !.notificationToDisplay = NoText, !.lastOp = "clear"]
    /\ UNCHANGED notNotifications

\* The oldest pending timeout is due and its callback runs.
TimeoutFires ==
    /\ notes.timers # <<>>
    /\ Head(notes.timers).left = 0
    /\ notes' = [removeNotification(notes, Head(notes.timers).id) EXCEPT
                     !.timers = Tail(@), !.lastOp = "timeout"]
    /\ UNCHANGED notNotifications

\* One step of time passes; a timeout that is due runs first.
TimePasses ==
    /\ notes.timers # <<>>
    /\ \A k \in DOMAIN notes.timers : notes.timers[k].left > 0
    /\ LET older(list) == [k \in DOMAIN list |-> [list[k] EXCEPT !.age = @ + 1]]
       IN notes' = [notes EXCEPT
                       !.timers = [k \in DOMAIN @ |-> [@[k] EXCEPT !.left = @ - 1]],
                       !.notificationsRef = older(@),
                       !.notifications = older(@),
                       !.lastOp = "time"]
    /\ UNCHANGED notNotifications

NextNotifications ==
    \/ \E text \in Texts : \E notificationId \in NotificationIds :
            NotificationToDisplay(text, notificationId)
    \/ NotificationCleared
    \/ TimeoutFires
    \/ TimePasses

\* Time passes and due timeouts run.
FairNotifications == WF_vars(TimeoutFires) /\ WF_vars(TimePasses)

SpecNotifications == InitNotifications /\ [][NextNotifications]_vars /\ FairNotifications

\* ------------------------------------------------------------------ reentrant callbacks

\* Number of facades constructed successfully in one behaviour of
\* SpecReentrant, and the number of operations one getState callback performs
\* on the synchronizer before it returns.
MaxReentrantFacades == 3
MaxNested == 2

\* What a getState callback does to the container it is called from:
\* new LiveObjectSynchronizer(id, ...) whose getState(true) does r, or
\* facade.dispose().
RegisterCmd(id, r) == [kind |-> "register", id |-> id, facade |-> 0, r |-> r]

DisposeCmd(f) == [kind |-> "dispose", id |-> "-", facade |-> f, r |-> Undefined]

\* The record of a nested operation among the callback invocations of a step.
NestedCall(fn, id, owner, result) ==
    [fn |-> fn, id |-> id, owner |-> owner, connecting |-> FALSE,
     state |-> Undefined, senderId |-> "-", result |-> result]

\* The body of a reentrant callback: its operations in order, on the
\* registry, the synchronizers and the facades as they are at that moment.
\* An exception of a nested constructor leaves the callback.
RECURSIVE runCallback(_, _, _, _)

\* The callback after its constructor call returned or threw (reg).
afterRegister(w, cmds, conn, acc, owner, reg) ==
    runCallback(
        [syncs |-> reg.syncs, registry |-> reg.registry,
         facades |-> IF reg.thrown = NoError
                     THEN Append(w.facades, [id |-> Head(cmds).id, isDisposed |-> FALSE])
                     ELSE w.facades],
        Tail(cmds), conn,
        [thrown |-> reg.thrown,
         out |-> acc.out \o reg.out,
         calls |-> (acc.calls \o reg.calls)
                   \o <<NestedCall("register", Head(cmds).id, owner, reg.thrown)>>,
         errs |-> acc.errs \o reg.errs])

\* The callback after its dispose() call returned (dis).
afterDispose(w, cmds, conn, acc, dis) ==
    runCallback(
        [syncs |-> dis.syncs, registry |-> dis.registry, facades |-> dis.facades],
        Tail(cmds), conn,
        [acc EXCEPT !.calls = Append(@, NestedCall("dispose", w.facades[Head(cmds).facade].id,
                                                   Head(cmds).facade, NoError))])

newOwner(w, conn, r) == IF conn /\ r = Throws THEN 0 ELSE Len(w.facades) + 1

runCallback(w, cmds, conn, acc) ==
    IF cmds = <<>> \/ acc.thrown # NoError THEN [w |-> w] @@ acc
    ELSE IF Head(cmds).kind = "register"
    THEN afterRegister(w, cmds, conn, acc, newOwner(w, conn, Head(cmds).r),
            LiveObjectSynchronizer_registerObject(w.syncs, w.registry, Head(cmds).id,
                                                  newOwner(w, conn, Head(cmds).r), conn,
                                                  Head(cmds).r))
    ELSE afterDispose(w, cmds, conn, acc,
            dispose(w.facades, w.syncs, w.registry, Head(cmds).facade))

\* The forEach of sendGroupEvent over the array it was handed (elements pushed
\* during the loop are not visited, filter() leaves the array alone), with
\* the handlers looked up in the map as it is when an id is reached.  The
\* callback of id a runs cmds before it returns g[a].
RECURSIVE forEachKey(_, _, _, _, _, _, _, _)

\* The rest of the loop after the callback of id returned r; nested is what
\* the callback did on its way.
afterGetState(i, w, keys, a, cmds, g, conn, acc, id, has, nested, r) ==
    forEachKey(i, nested.w, Tail(keys), a, cmds, g, conn,
        [updates |-> IF TypeofObject(r) THEN Put(acc.updates, id, r) ELSE acc.updates,
         out |-> acc.out \o nested.out,
         calls |-> IF has
                   THEN (Append(acc.calls, GetCall(id, w.syncs[i].objects[id], FALSE, r))
                         \o nested.calls)
                   ELSE acc.calls,
         errs |-> (acc.errs \o nested.errs)
                  \o IF r = Throws THEN <<GetStateLog>> ELSE <<>>])

\* this._objects.get(id)?.getState(false) inside its try block.
getStateOf(i, w, keys, a, cmds, g, conn, acc, id, has, nested) ==
    afterGetState(i, w, keys, a, cmds, g, conn, acc, id, has, nested,
        IF ~has THEN Undefined
        ELSE IF nested.thrown # NoError THEN Throws ELSE g[id])

forEachKey(i, w, keys, a, cmds, g, conn, acc) ==
    IF keys = <<>> THEN [w |-> w] @@ acc
    ELSE getStateOf(i, w, keys, a, cmds, g, conn, acc, Head(keys),
            Head(keys) \in DOMAIN w.syncs[i].objects,
            IF Head(keys) \in DOMAIN w.syncs[i].objects /\ Head(keys) = a
            THEN runCallback(w, cmds, conn, [thrown |-> NoError] @@ NoEffects)
            ELSE [w |-> w, thrown |-> NoError] @@ NoEffects)

\* The setInterval callback when the getState of id a is reentrant.
onTimerReentrant(i, w, a, cmds, g, conn) ==
    LET c == forEachKey(i, w, w.syncs[i].connectedKeys, a, cmds, g, conn,
                        [updates |-> EmptyContent] @@ NoEffects)
    IN [w |-> c.w,
        out |-> c.out \o IF DOMAIN c.updates # {}
                         THEN <<Signal(UPDATE_EVENT, c.updates)>> ELSE <<>>,
        calls |-> c.calls,
        errs |-> c.errs]

\* The operations a callback can perform now: constructions within the bound
\* on facades and disposals of the facades that exist then.
Cmds ==
    {RegisterCmd(id, r) : id \in Ids, r \in (IF connected THEN {"s1", Throws} ELSE {Undefined})}
    \cup {DisposeCmd(f) : f \in 1..MaxReentrantFacades}

RECURSIVE Feasible(_, _)
Feasible(cmds, n) ==
    IF cmds = <<>> THEN TRUE
    ELSE LET c == Head(cmds)
             ok == IF c.kind = "register" THEN n < MaxReentrantFacades ELSE c.facade <= n
             n1 == IF c.kind = "register" /\ c.r # Throws THEN n + 1 ELSE n
         IN ok /\ Feasible(Tail(cmds), n1)

Scripts ==
    {cmds \in UNION {[1..n -> Cmds] : n \in 1..MaxNested} : Feasible(cmds, Len(facades))}

\* One firing of the interval timer of synchronizer i during which the
\* getState callback of id a registers or disposes objects.
ReentrantTick(i, a) ==
    /\ i \in DOMAIN syncs
    /\ syncs[i].intervals > 0
    /\ a \in Ticked(i)
    /\ \E cmds \in Scripts : \E g \in Outcomes(Ids, {"s1", Throws}, Undefined) :
        LET res == onTimerReentrant(i, [syncs |-> syncs, registry |-> registry, facades |-> facades],
                                    a, cmds, g, connected)
        IN /\ syncs' = res.w.syncs
           /\ registry' = res.w.registry
           /\ facades' = res.w.facades
           /\ out' = res.out
           /\ calls' = res.calls
           /\ errs' = res.errs
    /\ op' = [NoOp EXCEPT !.name = "tick", !.id = a, !.facade = i, !.conn = connected]
    /\ thrown' = NoError
    /\ UNCHANGED connected
    /\ UNCHANGED notSynchronizer

\* The lifecycle with timer ticks whose callbacks are reentrant.
NextReentrant ==
    \/ \E id \in Ids : Construct(id, MaxReentrantFacades)
    \/ \E f \in 1..MaxReentrantFacades : Dispose(f)
    \/ RuntimeConnected
    \/ RuntimeDisconnected
    \/ \E i \in 1..(MaxReentrantFacades + 1) : \E a \in Ids : ReentrantTick(i, a)

SpecReentrant == Init /\ [][NextReentrant]_vars

\* ------------------------------------------------------------------ properties

\* Facades that were constructed and not disposed.
LiveFacades == {f \in DOMAIN facades : ~facades[f].isDisposed}

NoDuplicates(seq) == \A i, j \in DOMAIN seq : seq[i] = seq[j] => i = j

\* The last step constructed a facade while the runtime was connected and
\* the constructor returned.
ConstructedConnected(o, t) == o.name = "construct" /\ o.conn /\ t = NoError

\* The getState results of cs that are objects, keyed by id.
ObjectResults(cs) ==
    LET ks == {k \in DOMAIN cs : cs[k].fn = "getState" /\ TypeofObject(cs[k].result)}
    IN [id \in {cs[k].id : k \in ks} |-> cs[CHOOSE k \in ks : cs[k].id = id].result]

\* cs is exactly one getState(connecting) call per key of keys, in order.
OneGetStatePerKey(cs, keys, connecting) ==
    /\ Len(cs) = Len(keys)
    /\ \A k \in DOMAIN cs :
        cs[k].fn = "getState" /\ cs[k].id = keys[k] /\ cs[k].connecting = connecting

\* sigs is no signal if payload is empty and else the one signal (type, payload).
AtMostOneSignal(sigs, type, payload) ==
    sigs = IF DOMAIN payload = {} THEN <<>> ELSE <<Signal(type, payload)>>

\* C1: constructing a facade for an id that is registered with the
\* container's synchronizer throws the duplicate-registration error and
\* changes nothing: the synchronizer (objects, connectedKeys,
\* unconnectedKeys, refCount, timer), the registry and the facades stay as
\* they were, no callback runs and no signal is submitted.
C1_DuplicateRegistrationRejected ==
    [][(/\ op'.name = "construct"
        /\ registry # 0
        /\ op'.id \in DOMAIN syncs[registry].objects)
       => (/\ thrown' = DuplicateError
           /\ syncs' = syncs
           /\ registry' = registry
           /\ facades' = facades
           /\ out' = <<>>
           /\ calls' = <<>>)]_vars

C1_Witness ==
    /\ op.name = "construct"
    /\ thrown = DuplicateError
    /\ registry # 0
    /\ syncs[registry].refCount = 2

\* C2: in the synchronizer of the registry, connectedKeys and
\* unconnectedKeys are disjoint, hold no id twice, and together hold
\* exactly the keys of the objects map.
C2_KeysPartitionObjects ==
    registry # 0 =>
        LET s == syncs[registry]
        IN /\ NoDuplicates(s.connectedKeys \o s.unconnectedKeys)
           /\ Range(s.connectedKeys) \cup Range(s.unconnectedKeys) = DOMAIN s.objects

\* C3: the registry has an entry for the container exactly when a facade of
\* the container is registered (constructed and not disposed), and every
\* such facade is registered with the synchronizer of that entry.
C3_RegistryEntryIffRegistered ==
    /\ (registry # 0) <=> (LiveFacades # {})
    /\ \A f \in LiveFacades :
        /\ facades[f].id \in DOMAIN syncs[registry].objects
        /\ syncs[registry].objects[facades[f].id] = f

\* C4: the interval timer of every synchronizer runs exactly when its
\* refCount is greater than 0, never more than one interval at a time, and
\* a timer tick only ever comes from a synchronizer that holds a reference.
C4_TimerRunsIffReferenced ==
    /\ \A i \in DOMAIN syncs :
        /\ syncs[i].refCount >= 0
        /\ syncs[i].hTimer = (syncs[i].refCount > 0)
        /\ syncs[i].intervals = IF syncs[i].refCount > 0 THEN 1 ELSE 0
    /\ op.name = "tick" => syncs[op.facade].refCount > 0 /\ registry = op.facade

C4_Witness ==
    /\ op.name = "dispose"
    /\ registry = 0
    /\ Len(syncs) = 2
    /\ \A i \in DOMAIN syncs : syncs[i].intervals = 0

\* C5: the first dispose() of a facade removes the facade's own
\* registration and lowers the refCount of the container's synchronizer by
\* exactly one; every later dispose() of that facade changes nothing, also
\* when a newer facade holds the same id.
C5_DisposeIdempotent ==
    [][op'.name = "dispose" =>
        LET f == op'.facade
            id == facades[f].id
        IN IF facades[f].isDisposed
           THEN syncs' = syncs /\ registry' = registry /\ facades' = facades
           ELSE /\ facades' = [facades EXCEPT ![f].isDisposed = TRUE]
                /\ registry # 0
                /\ id \in DOMAIN syncs[registry].objects
                /\ syncs[registry].objects[id] = f
                /\ id \notin DOMAIN syncs'[registry].objects
                /\ syncs'[registry].refCount = syncs[registry].refCount - 1
                /\ \A i \in DOMAIN syncs : i # registry => syncs'[i] = syncs[i]]_vars

C5_Witness ==
    /\ op.name = "dispose"
    /\ \E f \in LiveFacades :
        /\ f > op.facade
        /\ facades[f].id = op.id
        /\ registry # 0
        /\ syncs[registry].objects[op.id] = f

C7_OneCoalescedConnect ==
    [][(ConstructedConnected(op, thrown) /\ ConstructedConnected(op', thrown') /\ op'.id # op.id)
       => (/\ Len(out \o out') = 1
           /\ (out \o out')[1].type = CONNECT_EVENT
           /\ DOMAIN (out \o out')[1].content = {op.id, op'.id})]_vars

\* C7 (amended): two registrations in succession while the runtime is
\* connected submit two connect signals, one per registration, each
\* carrying the id registered by its own step and no other.
C7_OneConnectPerRegistration ==
    [][(ConstructedConnected(op, thrown) /\ ConstructedConnected(op', thrown') /\ op'.id # op.id)
       => (/\ Len(out) = 1 /\ Len(out') = 1
           /\ out[1].type = CONNECT_EVENT /\ out'[1].type = CONNECT_EVENT
           /\ DOMAIN out[1].content = {op.id}
           /\ DOMAIN out'[1].content = {op'.id})]_vars

C7_Witness ==
    /\ ConstructedConnected(op, thrown)
    /\ LiveFacades = {1, 2}
    /\ Len(facades) = 2
    /\ syncs[registry].connectedKeys = <<facades[1].id, facades[2].id>>
    /\ DOMAIN out[1].content = {facades[2].id}

\* C8 (as stated): when the runtime emits "connected" and unconnectedKeys
\* is not empty, exactly one connect signal is submitted and it carries a
\* state for every pending id.
C8_ConnectCarriesEveryPending ==
    [][(op'.name = "connected" /\ registry # 0 /\ syncs[registry].unconnectedKeys # <<>>)
       => (/\ Len(out') = 1
           /\ out'[1].type = CONNECT_EVENT
           /\ DOMAIN out'[1].content = Range(syncs[registry].unconnectedKeys))]_vars

\* C8 (amended): when the runtime emits "connected", getState is called
\* once for every pending id of the registry's synchronizer; if at least
\* one call returned a state, exactly one connect signal is submitted and it
\* carries exactly the returned states, otherwise no signal is submitted;
\* the pending ids are appended to connectedKeys and unconnectedKeys is
\* empty afterwards.  With no pending id nothing is called or submitted.
C8_DeferredConnect ==
    [][op'.name = "connected" =>
        IF registry # 0
        THEN LET s == syncs[registry]
             IN /\ Len(calls') = Len(s.unconnectedKeys)
                /\ \A k \in DOMAIN calls' :
                    calls'[k].fn = "getState" /\ calls'[k].id = s.unconnectedKeys[k]
                /\ AtMostOneSignal(out', CONNECT_EVENT, ObjectResults(calls'))
                /\ syncs'[registry].connectedKeys = s.connectedKeys \o s.unconnectedKeys
                /\ syncs'[registry].unconnectedKeys = <<>>
                /\ syncs'[registry].objects = s.objects
        ELSE out' = <<>> /\ calls' = <<>>]_vars

C8_Witness ==
    /\ op.name = "connected"
    /\ Len(calls) = 2
    /\ Len(out) = 1
    /\ Cardinality(DOMAIN out[1].content) = 1
    /\ registry # 0
    /\ Len(syncs[registry].connectedKeys) = 2

\* C9: while an id is pending (registered while the runtime was
\* disconnected, "connected" not yet emitted), no signal that is submitted
\* carries it.
C9_NoSignalWhilePending ==
    registry # 0 =>
        \A id \in Range(syncs[registry].unconnectedKeys) :
            \A k \in DOMAIN out : id \notin DOMAIN out[k].content

\* C10: a timer tick calls getState(false) once for every id of
\* connectedKeys and submits at most one signal: the update that maps
\* exactly the ids whose call returned a state to that state, and no signal
\* when there is no such id.
C10_OneUpdatePerTick ==
    op.name = "tick" =>
        /\ OneGetStatePerKey(calls, syncs[op.facade].connectedKeys, FALSE)
        /\ AtMostOneSignal(out, UPDATE_EVENT, ObjectResults(calls))
        /\ thrown = NoError

C10_Witness ==
    /\ op.name = "tick"
    /\ Len(calls) = 2
    /\ Len(out) = 1
    /\ Cardinality(DOMAIN out[1].content) = 1
    /\ \E k \in DOMAIN calls : calls[k].result = Throws

RECURSIVE Concat(_)
Concat(seqs) == IF seqs = <<>> THEN <<>> ELSE Head(seqs) \o Concat(Tail(seqs))

\* The getState calls among cs, and the updateState calls among cs.
GetCalls(cs) == SelectSeq(cs, LAMBDA c : c.fn = "getState")

UpdateCalls(cs) == SelectSeq(cs, LAMBDA c : c.fn = "updateState")

\* The last step delivered a signal that was not submitted by this client.
RemoteSignal(o) == o.name = "signal" /\ ~o.local

\* The ids of msg's payload that synchronizer i holds handlers for, in the
\* order of the payload.
Recognized(i, msg) == SelectSeq(IdOrder, LAMBDA id : id \in DOMAIN msg.content \cap DOMAIN syncs[i].objects)

\* What synchronizer i answers to the connect msg when the getState calls cs
\* were made: the states returned for the ids it recognized.
PongOf(i, msg, cs) ==
    LET r == ObjectResults(cs)
    IN [id \in DOMAIN r \cap Range(Recognized(i, msg)) |-> r[id]]

\* The pongs of all subscribed synchronizers, in the order of subscription;
\* a synchronizer with nothing to answer submits none.
ExpectedPongs(msg, cs) ==
    SelectSeq([i \in DOMAIN syncs |-> Signal(UPDATE_EVENT, PongOf(i, msg, cs))],
              LAMBDA sg : DOMAIN sg.content # {})

\* Ids for which a facade is registered now.
LiveIds == {facades[f].id : f \in LiveFacades}

C12_ApplyOncePerRecord ==
    RemoteSignal(op) =>
        LET us == UpdateCalls(calls)
            want == IF op.msg.type \in {CONNECT_EVENT, UPDATE_EVENT}
                    THEN SelectSeq(IdOrder, LAMBDA id :
                            /\ id \in DOMAIN op.msg.content \cap Registered
                            /\ op.msg.content[id] \in StateVals)
                    ELSE <<>>
        IN /\ Len(us) = Len(want)
           /\ \A k \in DOMAIN us :
                /\ us[k].id = want[k]
                /\ us[k].state = op.msg.content[want[k]]
                /\ us[k].connecting = (op.msg.type = CONNECT_EVENT)
                /\ us[k].senderId = op.msg.clientId

\* C13: a signal delivered with local = true invokes no updateState and no
\* getState and makes no synchronizer submit a signal, whatever its type and
\* its payload.
C13_LocalSignalsIgnored ==
    (op.name = "signal" /\ op.local) => (out = <<>> /\ calls = <<>> /\ errs = <<>> /\ thrown = NoError)

C13_Witness ==
    /\ op.name = "signal"
    /\ op.local
    /\ op.msg.type = CONNECT_EVENT
    /\ op.msg.kind = "object"
    /\ "o1" \in DOMAIN op.msg.content
    /\ op.msg.content["o1"] = "s1"
    /\ "o1" \in LiveIds

\* C14: the only exception an operation of the synchronizer throws to its
\* caller is the duplicate-registration error; an exception of a getState or
\* updateState callback never leaves the facade constructor, the "connected"
\* listener, the signal listener or the timer callback.
C14_OnlyDuplicateEscapes == thrown \in {NoError, DuplicateError}

\* The keys a step hands to sendGroupEvent and that have handlers, over all
\* subscribed synchronizers: connectedKeys on a tick of synchronizer
\* o.facade, every unconnectedKeys on "connected", the recognized ids on a
\* remote connect signal.
CollectedKeys(o) ==
    IF o.name = "tick"
    THEN SelectSeq(syncs[o.facade].connectedKeys, LAMBDA id : id \in DOMAIN syncs[o.facade].objects)
    ELSE IF o.name = "connected"
    THEN Concat([i \in DOMAIN syncs |->
                    SelectSeq(syncs[i].unconnectedKeys, LAMBDA id : id \in DOMAIN syncs[i].objects)])
    ELSE Concat([i \in DOMAIN syncs |-> Recognized(i, o.msg)])

\* C15: when getState throws for some ids while the payload of an update or
\* of the deferred connect is built (timer tick, pong, "connected"), getState
\* is still called for every other key, the signal carries no throwing id
\* and carries every state that was returned, each exception is logged and
\* none is thrown on, and the timer of the synchronizer keeps running.
C15_ThrowingGetStateOmitted ==
    [][(\/ op'.name \in {"tick", "connected"}
        \/ (RemoteSignal(op') /\ op'.msg.type = CONNECT_EVENT /\ ContentIsObject(op'.msg)))
       => LET cs == GetCalls(calls')
              keys == CollectedKeys(op')
          IN /\ thrown' = NoError
             /\ Len(cs) = Len(keys)
             /\ \A k \in DOMAIN cs :
                  /\ cs[k].id = keys[k]
                  /\ cs[k].result = Throws =>
                        \A j \in DOMAIN out' : cs[k].id \notin DOMAIN out'[j].content
                  /\ cs[k].result \in StateVals =>
                        \E j \in DOMAIN out' : /\ cs[k].id \in DOMAIN out'[j].content
                                               /\ out'[j].content[cs[k].id] = cs[k].result
             /\ Len(SelectSeq(errs', LAMBDA e : e = GetStateLog))
                    = Len(SelectSeq(cs, LAMBDA c : c.result = Throws))
             /\ op'.name = "tick" =>
                    /\ syncs'[op'.facade].hTimer
                    /\ syncs'[op'.facade].intervals = 1]_vars

C15_Witness ==
    /\ RemoteSignal(op)
    /\ op.msg.type = CONNECT_EVENT
    /\ Len(GetCalls(calls)) = 2
    /\ GetCalls(calls)[1].result = Throws
    /\ GetCalls(calls)[2].result \in StateVals
    /\ Len(out) = 1
    /\ DOMAIN out[1].content = {GetCalls(calls)[2].id}
    /\ errs = <<GetStateLog>>

\* The ids of msg's payload that carry a record and that some subscribed
\* synchronizer holds handlers for, synchronizer by synchronizer.
Applicable(msg) ==
    Concat([i \in DOMAIN syncs |->
               SelectSeq(Recognized(i, msg), LAMBDA id : msg.content[id] \in StateVals)])

\* C16: when updateState throws for an id of a remote connect or update
\* payload, nothing is thrown on to the container, the exception is logged,
\* updateState is still invoked for every other recognized id of the payload
\* that carries a record, and a connect is still answered: getState(false) is
\* called for every recognized id and the pong carries the returned states.
C16_ThrowingUpdateStateIsolated ==
    (RemoteSignal(op) /\ op.msg.type \in {CONNECT_EVENT, UPDATE_EVENT} /\ ContentIsObject(op.msg)) =>
        LET us == UpdateCalls(calls)
            ids == Applicable(op.msg)
        IN /\ thrown = NoError
           /\ Len(us) >= Len(ids)
           /\ \A k \in DOMAIN ids : \E j \in DOMAIN us : us[j].id = ids[k]
           /\ Len(SelectSeq(errs, LAMBDA e : e = UpdateLog))
                = Len(SelectSeq(us, LAMBDA c : c.result = Throws))
           /\ op.msg.type = CONNECT_EVENT =>
                /\ Len(GetCalls(calls)) = Len(Concat([i \in DOMAIN syncs |-> Recognized(i, op.msg)]))
                /\ out = ExpectedPongs(op.msg, calls)

C16_Witness ==
    /\ RemoteSignal(op)
    /\ op.msg.type = CONNECT_EVENT
    /\ Len(UpdateCalls(calls)) = 2
    /\ UpdateCalls(calls)[1].result = Throws
    /\ UpdateCalls(calls)[2].result = Ok
    /\ errs = <<UpdateLog>>
    /\ Len(out) = 1
    /\ DOMAIN out[1].content = Ids

\* C17: once a facade has been disposed, its getState and updateState are
\* never invoked again, and unless its id was registered again by a new
\* facade no signal submitted by a later tick, pong or "connected" carries
\* the id.
C17_DisposedNeverUsed ==
    \A f \in DOMAIN facades :
        facades[f].isDisposed =>
            /\ \A k \in DOMAIN calls : calls[k].owner # f
            /\ facades[f].id \notin LiveIds =>
                    \A j \in DOMAIN out : facades[f].id \notin DOMAIN out[j].content

Occurrences(seq, x) == Len(SelectSeq(seq, LAMBDA y : y = x))

\* C18: constructing a facade for an id right after dispose() has removed
\* the registration of that id never throws the duplicate-registration
\* error, and a constructor that returns has done what an initial
\* registration does: the new facade's handlers are stored, the refCount is
\* one higher, and while the runtime is connected one connect signal for the
\* id is submitted and the id is in connectedKeys once, while it is
\* disconnected nothing is submitted and the id is in unconnectedKeys once.
\* This holds whether the disposed facade was the last one of its container
\* (a new synchronizer is created) or not.
C18_ReRegistrationLikeInitial ==
    [][(/\ op.name = "dispose"
        /\ facades[op.facade].isDisposed
        /\ (registry = 0 \/ op.id \notin DOMAIN syncs[registry].objects)
        /\ op'.name = "construct"
        /\ op'.id = op.id)
       => /\ thrown' # DuplicateError
          /\ thrown' = NoError =>
                LET s == syncs'[registry']
                    id == op'.id
                IN /\ facades' = Append(facades, [id |-> id, isDisposed |-> FALSE])
                   /\ s.objects[id] = Len(facades')
                   /\ s.refCount = (IF registry = 0 THEN 0 ELSE syncs[registry].refCount) + 1
                   /\ registry' = IF registry = 0 THEN Len(syncs) + 1 ELSE registry
                   /\ IF op'.conn
                      THEN /\ OneGetStatePerKey(calls', <<id>>, TRUE)
                           /\ out' = <<Signal(CONNECT_EVENT, Put(EmptyContent, id, calls'[1].result))>>
                           /\ Occurrences(s.connectedKeys, id) = 1
                           /\ Occurrences(s.unconnectedKeys, id) = 0
                      ELSE /\ calls' = <<>>
                           /\ out' = <<>>
                           /\ Occurrences(s.connectedKeys, id) = 0
                           /\ Occurrences(s.unconnectedKeys, id) = 1]_vars

C18_Witness ==
    /\ op.name = "construct"
    /\ thrown = NoError
    /\ op.conn
    /\ Len(facades) = 3
    /\ facades[1].isDisposed
    /\ facades[1].id = op.id
    /\ LiveFacades = {2, 3}
    /\ syncs[registry].refCount = 2
    /\ syncs[registry].connectedKeys = <<facades[2].id, op.id>>

\* The newest of the states in S under the freshness rule.
Newest(S) == CHOOSE s \in S : \A x \in S \ {s} : IsNewer(Stamp[s], Stamp[x])

AllRegistered == \A p \in Peers : peers[p].registered

C20_EnvelopeClientIdFromCarrier ==
    \A k \in DOMAIN scopeObs.events :
        scopeObs.events[k].envelope.clientId = scopeObs.events[k].message.clientId

C20_Witness ==
    /\ Len(scopeObs.events) = 1
    /\ scopeObs.events[1].message.clientId = "B"
    /\ scopeObs.events[1].message.content.clientId = "X"
    /\ scopeObs.events[1].envelope.clientId = "B"

\* The lookup the last step settled, if it settled one.
Settled == scopeObs.settled

\* C21 (as stated): while allowedRoles is not empty, no listener is called
\* for an event whose sender's roles are disjoint from allowedRoles.
C21_NoDeliveryWhileRestricted ==
    \A k \in DOMAIN Settled :
        (scope.allowedRoles # {} /\ Settled[k].roles \cap scope.allowedRoles = {})
            => scopeObs.events = <<>>

\* C21: no listener is called for an event whose sender's roles are disjoint
\* from the allowedRoles the scope had, not empty, when the signal arrived;
\* local signals included.
C21_RoleGateAtArrival ==
    \A k \in DOMAIN Settled :
        (Settled[k].lookup.allowed # {} /\ Settled[k].roles \cap Settled[k].lookup.allowed = {})
            => scopeObs.events = <<>>

C21_Witness ==
    /\ Len(Settled) = 1
    /\ ~Settled[1].rejected
    /\ Settled[1].lookup.local
    /\ Settled[1].lookup.allowed = {"Presenter"}
    /\ Settled[1].roles = {"Attendee"}
    /\ scope.listeners[Settled[1].lookup.type] # <<>>
    /\ scopeObs.events = <<>>

\* C22: a signal with a carrier clientId that arrived at a connected runtime
\* while allowedRoles was empty calls, when its verification settles, every
\* listener registered for its type.
C22_OpenScopeDeliversToAll ==
    \A k \in DOMAIN Settled :
        Settled[k].lookup.allowed = {}
            => /\ ~Settled[k].rejected
               /\ [j \in DOMAIN scopeObs.events |-> scopeObs.events[j].listener]
                      = scope.listeners[Settled[k].lookup.type]

\* C23: a signal that arrives while the runtime is not connected, or with a
\* null carrier clientId, starts no role verification and calls no listener;
\* every verification in flight, and every listener call, belongs to a
\* signal that arrived connected and with a clientId.
C23_DroppedNeverDelivered ==
    /\ \A k \in DOMAIN scopeObs.arrived : scopeObs.events = <<>>
    /\ \A k \in DOMAIN scope.lookups :
            scope.lookups[k].connected /\ scope.lookups[k].message.clientId # Null
    /\ scopeObs.events # <<>> =>
            \A k \in DOMAIN Settled :
                Settled[k].lookup.connected /\ Settled[k].lookup.message.clientId # Null

C23_Witness ==
    /\ scopeObs.arrived = <<[clientId |-> "B", connected |-> FALSE]>>
    /\ scope.listeners["e1"] # <<>>
    /\ scope.listeners["e2"] # <<>>
    /\ scope.lookups = <<>>
    /\ scopeObs.events = <<>>

\* C24: a settled verification records exactly one SharedEvent:invalidRole
\* entry and no listener call when the event was dropped by the role gate or
\* by a failed lookup, and no entry when the event passed the gate.
C24_TelemetryIffDropped ==
    \A k \in DOMAIN Settled :
        LET dropped == Settled[k].rejected
                          \/ ~verifyRolesAllowed(Settled[k].roles, Settled[k].lookup.allowed)
        IN /\ dropped => scopeObs.telemetry = <<InvalidRole>> /\ scopeObs.events = <<>>
           /\ ~dropped => scopeObs.telemetry = <<>>

\* C25: a listener that throws does not keep the listeners registered after
\* it from being called, its exception does not leave the scope, and it is
\* reported on the scope's "error" channel.
C25_ListenerExceptionIsolated ==
    \A k \in DOMAIN Settled :
        (~Settled[k].rejected /\ verifyRolesAllowed(Settled[k].roles, Settled[k].lookup.allowed))
            => /\ scopeObs.thrown = NoError
               /\ Len(scopeObs.events) = Len(scope.listeners[Settled[k].lookup.type])
               /\ Len(scopeObs.errors) =
                      Occurrences(scope.listeners[Settled[k].lookup.type], Throws)

\* C26: sendEvent(name, evt) submits exactly one signal of type name, whose
\* content is the envelope it returns: evt's other fields with name, clientId
\* and timestamp set to name, runtime.clientId and the current timestamp,
\* whatever evt supplied for them; evt itself is unchanged; allowedRoles and
\* the connection state play no part.
C26_SendEventSubmitsOneEnvelope ==
    \A k \in DOMAIN scopeObs.send :
        LET c == scopeObs.send[k]
        IN /\ Len(scopeObs.sent) = 1
           /\ Len(scopeObs.returned) = 1
           /\ scopeObs.sent[1].type = c.eventName
           /\ scopeObs.sent[1].content = scopeObs.returned[1]
           /\ scopeObs.returned[1].name = c.eventName
           /\ scopeObs.returned[1].clientId = RuntimeClientId(c.connected)
           /\ scopeObs.returned[1].timestamp = c.now
           /\ scopeObs.returned[1].data = c.evt.data
           /\ DOMAIN scopeObs.returned[1] = DOMAIN c.evt
           /\ c.evtAfter = c.evt

C26_Witness ==
    /\ Len(scopeObs.send) = 1
    /\ scopeObs.send[1].evt = [clientId |-> "X", name |-> "forged", timestamp |-> 1, data |-> "d1"]
    /\ ~scopeObs.send[1].connected
    /\ scope.allowedRoles = {"Presenter"}
    /\ scopeObs.returned[1] =
           [clientId |-> Undefined, name |-> "e2", timestamp |-> 1001, data |-> "d1"]

\* C27 (as stated): the envelope a listener registered under a name receives
\* has that name in its name field.
C27_NameEqualsType ==
    \A k \in DOMAIN scopeObs.events :
        scopeObs.events[k].envelope.name = scopeObs.events[k].name

\* C27: a listener registered under a name is called for the signals of that
\* type, and the envelope's name field is the one the sender's payload
\* carried: the signal type when the sender put it there, as sendEvent does.
C27_NameAsSent ==
    \A k \in DOMAIN scopeObs.events :
        /\ scopeObs.events[k].name = scopeObs.events[k].message.type
        /\ scopeObs.events[k].envelope.name = scopeObs.events[k].message.content.name

C27_Witness ==
    /\ Len(scopeObs.events) = 1
    /\ scopeObs.events[1].name = "e1"
    /\ scopeObs.events[1].message.content.name = "forged"
    /\ scopeObs.events[1].envelope.name = "forged"

\* Same (timestamp, clientId).
SameStamp(a, b) == a.timestamp = b.timestamp /\ a.clientId = b.clientId

\* Exactly one of three.
ExactlyOne(p, q, r) == (p /\ ~q /\ ~r) \/ (~p /\ q /\ ~r) \/ (~p /\ ~q /\ r)

\* C28: newer is a strict total order on (timestamp, clientId) pairs: never
\* newer(a, b) and newer(b, a); newer(a, b) and newer(b, c) give newer(a, c);
\* exactly one of newer(a, b), newer(b, a), a equivalent to b; and with equal
\* timestamps the event with the lexicographically larger clientId is newer.
C28_NewerIsStrictTotalOrder ==
    fresh.newer # NoComparison =>
        /\ ~(fresh.newer.ab /\ fresh.newer.ba)
        /\ (fresh.newer.ab /\ fresh.newer.bc) => fresh.newer.ac
        /\ ExactlyOne(fresh.newer.ab, fresh.newer.ba, SameStamp(fresh.a, fresh.b))
        /\ (fresh.a.timestamp > fresh.b.timestamp) => fresh.newer.ab
        /\ (fresh.a.timestamp = fresh.b.timestamp
               /\ LexLess(Spelling[fresh.b.clientId], Spelling[fresh.a.clientId])) => fresh.newer.ab

C28_Witness ==
    /\ fresh.newer # NoComparison
    /\ fresh.a = [timestamp |-> 1000, clientId |-> "B"]
    /\ fresh.b = [timestamp |-> 1000, clientId |-> "A"]
    /\ fresh.c = [timestamp |-> 1000, clientId |-> "AB"]
    /\ fresh.newer.ab /\ fresh.newer.ac /\ fresh.newer.cb /\ ~fresh.newer.ba

\* x lies between a and b.
Between(a, x, b) == (a <= x /\ x <= b) \/ (b <= x /\ x <= a)

\* C29: a full volumeChangeDuration after startLimiting(), with no call in
\* between, the player's volume is the limit target: limitLevel, or
\* limitLevel times the selected volume when limitLevelType is percentage;
\* during the ramp it stays between the volume the ramp started at and the
\* target.
C29_LimitingReachesTarget ==
    vol.lastCall = "startLimiting" =>
        /\ Between(vol.startVolume, vol.player, limitTarget(vol))
        /\ vol.elapsed = RampFrames =>
              /\ vol.limitLevelType = "fixed" => vol.player = vol.limitLevel
              /\ vol.limitLevelType = "percentage" =>
                     vol.player = (vol.limitLevel * vol.volume) \div 100

C29_Witness ==
    /\ vol.lastCall = "startLimiting"
    /\ vol.elapsed = RampFrames
    /\ vol.limitLevelType = "percentage"
    /\ vol.limitLevel = 50
    /\ vol.volume = 80
    /\ vol.startVolume = 80
    /\ vol.player = 40

\* C30: a full volumeChangeDuration after stopLimiting(), or after a new
\* selected volume was assigned while not limiting, with no call in between,
\* the player's volume is the selected volume, wherever the ramp before
\* had got to.
C30_UnlimitedReachesSelected ==
    (vol.elapsed = RampFrames
        /\ (vol.lastCall = "stopLimiting" \/ (vol.lastCall = "volume" /\ ~vol.isLimiting)))
    => vol.player = vol.volume

C30_Witness ==
    /\ vol.lastCall = "stopLimiting"
    /\ vol.elapsed = RampFrames
    /\ vol.volume = 70
    /\ vol.startVolume = 55
    /\ vol.player = 70

\* C31: the states of a connect signal, the deferred one of "connected"
\* included, come from getState(true); getState(false) is called only in
\* steps that submit no connect signal.
C31_ConnectStatesFromGetStateTrue ==
    (\E k \in DOMAIN out : out[k].type = CONNECT_EVENT)
        => \A j \in DOMAIN calls : calls[j].fn = "getState" => calls[j].connecting

\* The state of an id in the synchronizer the registry holds.
IdState(ss, reg, id) ==
    IF reg = 0 THEN "absent"
    ELSE IF id \in Range(ss[reg].connectedKeys) THEN "CONNECTED"
    ELSE IF id \in Range(ss[reg].unconnectedKeys) THEN "PENDING"
    ELSE "absent"

\* Ids a connect signal of the last step carries.
ConnectIds(signals) ==
    UNION {DOMAIN signals[k].content : k \in {j \in DOMAIN signals : signals[j].type = CONNECT_EVENT}}

\* C32: an id goes from absent to CONNECTED only by a registration while
\* connected, from absent to PENDING only by a registration while
\* disconnected, from PENDING to CONNECTED only by "connected", and to absent
\* only by its unregistration; it is never in both key lists; a disconnection
\* changes no id's state, and "connected" submits a connect signal only for
\* ids that were PENDING.
C32_IdTransitions ==
    [][\A id \in Ids :
        LET a == IdState(syncs, registry, id)
            b == IdState(syncs', registry', id)
        IN /\ registry' # 0 =>
                ~(id \in Range(syncs'[registry'].connectedKeys)
                    /\ id \in Range(syncs'[registry'].unconnectedKeys))
           /\ (a = "absent" /\ b = "CONNECTED") =>
                (op'.name = "construct" /\ op'.id = id /\ connected)
           /\ (a = "absent" /\ b = "PENDING") =>
                (op'.name = "construct" /\ op'.id = id /\ ~connected)
           /\ (a = "PENDING" /\ b = "CONNECTED") => op'.name = "connected"
           /\ (a # "absent" /\ b = "absent") => (op'.name = "dispose" /\ op'.id = id)
           /\ ~(a = "CONNECTED" /\ b = "PENDING")
           /\ (op'.name = "connected" /\ id \in ConnectIds(out')) => a = "PENDING"
           /\ (op'.name = "connected" /\ a = "PENDING") => b = "CONNECTED"
      ]_vars

\* A reconnection: "connected" was emitted while an id was CONNECTED, and
\* nothing was submitted.
C32_Witness ==
    /\ op.name = "connected"
    /\ out = <<>>
    /\ calls = <<>>
    /\ IdState(syncs, registry, "o1") = "CONNECTED"
    /\ IdState(syncs, registry, "o2") = "absent"

\* C33: the pong of a received connect is submitted within the handling of
\* that connect: while a remote connect is dispatched, getState is asked for
\* every id of the payload a synchronizer holds handlers for, every state it
\* hands out is in an update submitted by that same handler run (so before
\* any later tick and any other inbound signal), and handling the signal
\* leaves every synchronizer's timer as it was.
C33_PongWithinConnectHandling ==
    [][(op'.name = "signal" /\ ~op'.local /\ op'.msg.type = CONNECT_EVENT)
        => /\ \A i \in DOMAIN syncs : \A id \in Range(Recognized(i, op'.msg)) :
                \E j \in DOMAIN calls' : calls'[j].fn = "getState" /\ calls'[j].id = id
           /\ \A j \in DOMAIN calls' :
                (calls'[j].fn = "getState" /\ TypeofObject(calls'[j].result))
                    => \E k \in DOMAIN out' :
                        /\ out'[k].type = UPDATE_EVENT
                        /\ calls'[j].id \in DOMAIN out'[k].content
                        /\ out'[k].content[calls'[j].id] = calls'[j].result
           /\ \A k \in DOMAIN out' : out'[k].type = UPDATE_EVENT
           /\ \A i \in DOMAIN syncs :
                /\ syncs'[i].hTimer = syncs[i].hTimer
                /\ syncs'[i].intervals = syncs[i].intervals
      ]_vars

C33_Witness ==
    /\ RemoteSignal(op)
    /\ op.msg.type = CONNECT_EVENT
    /\ \E k \in DOMAIN out : out[k].type = UPDATE_EVENT
    /\ \E j \in DOMAIN calls : calls[j].fn = "getState" /\ TypeofObject(calls[j].result)
    /\ registry # 0
    /\ syncs[registry].hTimer
    /\ syncs[registry].intervals = 1

\* The key lists of the registry's synchronizer hold exactly the ids it has
\* handlers for, each once.
KeysConsistent(ss, reg) ==
    reg # 0 =>
        LET keys == ss[reg].connectedKeys \o ss[reg].unconnectedKeys
        IN /\ Range(keys) = DOMAIN ss[reg].objects
           /\ \A j, k \in DOMAIN keys : keys[j] = keys[k] => j = k

\* The callback invocations of the last step that happened inside a
\* reentrant callback.
NestedOps(cs) == {k \in DOMAIN cs : cs[k].fn \in {"register", "dispose"}}

\* C34: a timer tick during which a getState callback registers or disposes
\* objects of the same container throws nothing, asks an id for its state at
\* most once, calls no callback of a facade that was disposed before the call,
\* and leaves the key lists consistent with the registered ids when they were
\* so before.
C34_ReentrantTick ==
    [][(op'.name = "tick" /\ NestedOps(calls') # {})
        => /\ thrown' = NoError
           /\ \A j, k \in DOMAIN calls' :
                (calls'[j].fn = "getState" /\ ~calls'[j].connecting
                    /\ calls'[k].fn = "getState" /\ ~calls'[k].connecting
                    /\ calls'[j].id = calls'[k].id) => j = k
           /\ \A j \in DOMAIN calls' :
                (calls'[j].fn = "getState" /\ calls'[j].owner \in DOMAIN facades)
                    => /\ ~facades[calls'[j].owner].isDisposed
                       /\ \A k \in 1..(j - 1) :
                            ~(calls'[k].fn = "dispose" /\ calls'[k].owner = calls'[j].owner)
           /\ KeysConsistent(syncs, registry) => KeysConsistent(syncs', registry')
      ]_vars

\* The last step settled a verification that was in flight while
\* allowedRoles was replaced: the roles it was started with are not the
\* scope's any more.
ReplacedWhilePending(k) ==
    /\ ~Settled[k].rejected
    /\ Settled[k].lookup.allowed # scope.allowedRoles

\* C35 (as stated): an event whose verification was in flight when
\* allowedRoles was replaced is delivered only if the new allowedRoles is
\* empty or the sender's roles intersect it.
C35_NewRolesGovernPending ==
    \A k \in DOMAIN Settled :
        (ReplacedWhilePending(k) /\ scopeObs.events # <<>>)
            => \/ scope.allowedRoles = {}
               \/ Settled[k].roles \cap scope.allowedRoles # {}

\* C35 (amended): an event whose verification was in flight when
\* allowedRoles was replaced is delivered exactly if the allowedRoles of the
\* moment its signal arrived was empty or the sender's roles intersect it;
\* the replacement governs the signals that arrive after it.
C35_ArrivalRolesGovernPending ==
    \A k \in DOMAIN Settled :
        (ReplacedWhilePending(k) /\ scope.listeners[Settled[k].lookup.type] # <<>>)
            => (scopeObs.events # <<>>
                    <=> \/ Settled[k].lookup.allowed = {}
                        \/ Settled[k].roles \cap Settled[k].lookup.allowed # {})

C35_Witness ==
    /\ Len(Settled) = 1
    /\ ReplacedWhilePending(1)
    /\ Settled[1].lookup.allowed = {"Presenter"}
    /\ scope.allowedRoles = {}
    /\ Settled[1].roles = {"Attendee"}
    /\ scope.listeners[Settled[1].lookup.type] # <<>>
    /\ scopeObs.events = <<>>
    /\ scopeObs.telemetry = <<InvalidRole>>

\* The verifications that were started before the one the last step
\* settled and are still in flight: removing lookup k leaves the older ones
\* at their positions.
OlderPending(k) == {j \in DOMAIN scope.lookups : j < Settled[k].index}

\* A pending verification that passes the gate whenever it resolves, for an
\* event a listener waits for.
PassesGate(l) == l.allowed = {} /\ scope.listeners[l.type] # <<>>

\* C36 (as stated): events that pass the gate are delivered in the order in
\* which their signals arrived: no event is delivered while an older one
\* that passes the gate still waits for its verification.
C36_DeliveredInArrivalOrder ==
    \A k \in DOMAIN Settled :
        scopeObs.events # <<>> => \A j \in OlderPending(k) : ~PassesGate(scope.lookups[j])

\* C36 (amended): events that pass the gate are delivered in the order in
\* which their verifications complete: an event whose verification resolves
\* in its favour is handed to the listeners of its type in that very step,
\* whatever older verifications are still in flight, and those stay pending.
C36_DeliveredInResolutionOrder ==
    \A k \in DOMAIN Settled :
        LET l == Settled[k].lookup
        IN (/\ ~Settled[k].rejected
            /\ verifyRolesAllowed(Settled[k].roles, l.allowed)
            /\ scope.listeners[l.type] # <<>>)
                => /\ scopeObs.events # <<>>
                   /\ \A e \in DOMAIN scopeObs.events :
                        /\ scopeObs.events[e].name = l.type
                        /\ scopeObs.events[e].envelope = l.content

C36_Witness ==
    /\ Len(Settled) = 1
    /\ Settled[1].index = 2
    /\ scopeObs.events # <<>>
    /\ Len(scope.lookups) = 1
    /\ PassesGate(scope.lookups[1])
    /\ scope.lookups[1].content # Settled[1].lookup.content

\* C37: in every synchronizer the reference count is the number of entries
\* of the objects map, also after a registration whose getState(true) threw
\* and after a rejected duplicate registration.
C37_RefCountIsObjectCount ==
    \A i \in DOMAIN syncs : syncs[i].refCount = Cardinality(DOMAIN syncs[i].objects)

\* Callbacks that hand out a state and accept every update.
AllStates == [id \in Ids |-> "s1"]

AllOk == [id \in Ids |-> Ok]

\* A run of a listener that called no callback and submitted no signal.
Quiet(res) == res.calls = <<>> /\ res.out = <<>>

\* C38: a synchronizer that is not the registry's any more stays subscribed
\* but does nothing: a signal, a "connected" event or a timer tick makes it
\* call no getState / updateState and submit no signal.
C38_RemovedSynchronizerIsSilent ==
    [][\A i \in DOMAIN syncs :
        i # registry =>
            /\ op'.name = "signal" => Quiet(onSignal(syncs[i], op'.msg, op'.local, AllStates, AllOk))
            /\ op'.name = "connected" => Quiet(onConnected(syncs[i], AllStates))
            /\ (op'.name = "tick" /\ op'.facade = i) => Quiet(onTimer(syncs[i], AllStates))
      ]_vars

\* C39: onSelectTool(tool) disables inking exactly when inking was enabled
\* and tool was the selected tool, and enables it otherwise; afterwards the
\* selected tool and inkingManager.tool are tool; selecting the same tool
\* twice in a row flips isEnabled, selecting another tool leaves it enabled.
C39_SelectToolToggles ==
    ink.last.op = "onSelectTool" =>
        /\ ink.isEnabled = ~(ink.last.isEnabled /\ ink.last.tool = ink.last.selectedTool)
        /\ ink.selectedTool = ink.last.tool
        /\ ink.tool = ink.last.tool
        /\ ink.last.tool # ink.last.selectedTool => ink.isEnabled
        /\ (ink.prev.op = "onSelectTool" /\ ink.prev.tool = ink.last.tool)
                => ink.isEnabled = ~ink.prev.enabled

C39_Witness ==
    /\ ink.prev.op = "onSelectTool"
    /\ ink.last.op = "onSelectTool"
    /\ ink.prev.tool = "eraser"
    /\ ink.prev.selectedTool = "pen"
    /\ ink.last.tool = "eraser"
    /\ ~ink.isEnabled

====
